---- MODULE Spec2Model ----
(***************************************************************************)
(* EESync toolbox: the CSV export sink (export/export_sink.py) and the     *)
(* synchronizer (processing/sync_controller.py) as state machines.         *)
(*                                                                         *)
(* Times are integers.  A sample value and a quantized time t_q are        *)
(* counted in units of 1e-7; a formatted CSV cell holds units of 1e-6.     *)
(* Wall-clock time of the export consumer is counted in waits of its       *)
(* queue: one tick is one timed-out q.get(timeout).                        *)
(***************************************************************************)
EXTENDS Integers, Sequences, FiniteSets, TLC

\* ------------------------------------------------------------------------
\* Bounds of the model
\* ------------------------------------------------------------------------
\* Largest frame index k carried by a payload.
MaxK == 2
\* Number of payloads put on the export sink's queue in one session.
MaxPkts == 3
\* Number of payloads of a session in which the idle watermark is enabled.
MaxPktsIdle == 2
\* Number of payloads of a session about the buffered rows.
MaxPktsRows == 2
\* Number of payloads of a session checked under fair scheduling.
MaxPktsFair == 1
\* Largest number of payloads waiting in the export sink's queue.
MaxQLen == 1
\* Cap of the counter of forced idle flushes since the last payload.
MaxIdleFlushes == 2

\* Packets submitted to the intake in a run about the intake.
MaxEnq == 2
\* Packets submitted to the intake in a run about the device anchors.
MaxEnqAnchor == 3
\* Trigger calls (set_event, trigger_spike) in a run about the triggers.
MaxTrig == 2
\* Packets submitted to the intake in a run about the triggers.
MaxEnqTrig == 1
\* Trigger calls in a run about the intake.
MaxTrigEnq == 1
\* Calls of start_session, enqueue_packet and the triggers in a run about
\* the triggers.
MaxCalls == 3
\* Calls of device_time_s between two resets of the timebase.
MaxTicks == 4
\* Largest max_queue of the intake in a run about the drop-oldest policy.
MaxQueueDrop == 2
\* Sessions started in one run.
MaxSessions == 1
\* Sessions started in a run about re-starting.
MaxSessionsRestart == 2
\* Largest value of the host clock.
MaxClock == 1
\* Largest device timestamp of a packet, in clock ticks.
MaxDevTs == 1
\* Largest device_ts of the runs about the plot decimation: the payloads
\* of a device reach two decimation bins.
MaxDevTsPlot == 3

\* ------------------------------------------------------------------------
\* Configuration of the export sink
\* ------------------------------------------------------------------------
\* Fixed lookahead L in steps (lookahead_steps given by the caller).
Lookahead == 1
\* A longer lookahead, for the sessions about the arrival order.
LookaheadOrder == 2
\* idle_watermark_sec in ticks, when the idle watermark is enabled.
IdleWatermarkTicks == 2
\* flush_period_sec in ticks: the wait of q.get is half the flush period.
FlushPeriodTicks == 2
\* flush_rows_threshold (a positive threshold given by the caller).
FlushRowsThreshold == 2
\* Grid step delta = 0.01 s in units of 1e-7 s.
DeltaUnits == 100000

\* Ordered device:channel list given at construction (known_channels).
Channels == << <<"A", "x">>, <<"A", "y">> >>
\* Key of the synthetic spike column of a buffered row.
SpikeKey == <<"spike">>
\* Values of the operator event keymap, in order; the first is the default.
EventKeymapValues == <<"REST", "TASK_1">>
\* Default event: first value of the keymap.
DefaultEvent == EventKeymapValues[1]
\* Labels a trigger caller may pass; "TASK" is event_demo's fallback label
\* and is not a value of the keymap.
Labels == {"REST", "TASK_1", "TASK"}
\* Sources of marker triggers: the keyboard and a marker generator.
Sources == {"keyboard"}
\* Spike labels.
SpikeLabels == {"SPIKE_A"}
\* Values of current_event_after carried by the event payloads put on the
\* export sink's queue.
EventAfter == {"REST", "TASK_1"}

\* A sample value: a finite number in units of 1e-7, or absent (None).
Num(n) == [t |-> "num", v |-> n]
None == [t |-> "none", v |-> 0]
\* The non-finite floats.
NaN == [t |-> "nan", v |-> 0]
PosInf == [t |-> "inf", v |-> 0]
NegInf == [t |-> "-inf", v |-> 0]
\* The pair lists of the sample payloads of the model: the values 1.0, 2.0
\* and 2.0000004, the header channels x and y, and a channel z that is
\* not in the header.
SamplePairs ==
  { << <<"x", Num(10000000)>> >>,
    << <<"y", Num(20000000)>>, <<"x", Num(20000004)>> >>,
    << <<"z", Num(10000000)>>, <<"x", Num(20000000)>> >> }

VARIABLES
  sink,            \* fields of the ExportSink object
  q,               \* ExportSink.q: payloads waiting for the consumer
  thr,             \* "none": not started, "run": consumer in q.get,
                   \* "exit": consumer left its loop, "joined": stop() done
  stop_flag,       \* ExportSink._stop
  get_expired,     \* the pending q.get(timeout) has timed out
  idle_for,        \* now - _last_activity_monotonic, saturating
  since_flush,     \* now - _last_flush_time, saturating
  synced_disk,     \* number of synced rows flushed to the file
  markers_disk,    \* number of marker rows flushed to the file
  idle_watermark,  \* _idle_watermark_sec in ticks (0 disables)
  sent,            \* number of payloads put on the queue so far
  budget,          \* number of payloads of the session
  idle_flushes,    \* forced idle flushes since the last payload (capped)
  hist             \* history of the payloads the consumer has handled:
                   \* events_seen: k -> current_event_after of the last
                   \* event payload handled for k; overwrites: the (k,
                   \* channel) cells a later sample replaced in the buffer

VARIABLES
  sm,              \* fields of the SyncManager object
  intake,          \* SyncManager._q: packets and stop sentinels
  cons,            \* positions of the consumer threads started so far:
                   \* "test" (loop test), "get" (in _q.get), "exit"
  sink_q,          \* payloads put on the queue of each sink
  clock,           \* time.monotonic() in ticks of delta / 2
  stop_pc,         \* "idle", or "join": stop_session waits for the consumer
  ret,             \* outcome of the last call of the public API
  enq,             \* number of packets submitted to enqueue_packet
  trig,            \* number of trigger calls made
  at_stop,         \* ids of the packets queued when stop_session was called
  limits,          \* numbers of packets, trigger calls, sessions and calls
                   \* in total of the run; bad: producers also submit
                   \* packets with malformed pairs; devts: largest
                   \* device_ts of a packet; sinks: the queues that
                   \* add_sink_queue is called with
  lastpkt,         \* history of the consumer: per device, the device_ts, k
                   \* and session of the last packet it mapped to host time,
                   \* and the (channel, bin) of every sample value forwarded
                   \* to the plot sinks in that session
  held             \* per consumer thread, the packet that its _q.get has
                   \* returned and that it has not handled yet

VARIABLES
  tb,              \* shimmer_timebase: state is _STATE (key -> start, last,
                   \* offset); calls is the history of the calls of
                   \* device_time_s since the last reset: raw tick and
                   \* returned time
  trg,             \* the trigger threads inside SyncManager.set_event: their
                   \* position, arguments and returned payload
  quant,           \* the quantizer of a session alone: _delta, _tq_decimals
                   \* and the history of the calls of _quantize (host time
                   \* in ticks, k, t_q in units of 10^-decimals s)
  lsl              \* UnicornLSLTimebase: _anchored, _t_curr, _last_wall and
                   \* the history of the calls of next_tick since the
                   \* anchor

auxVars == <<tb, trg, quant, lsl>>

syncVars == <<sm, intake, cons, sink_q, clock, stop_pc, ret, enq, trig,
              at_stop, limits, lastpkt, held>>

exportVars == <<sink, q, thr, stop_flag, get_expired, idle_for, since_flush,
                synced_disk, markers_disk, idle_watermark, sent, budget,
                idle_flushes, hist>>

\* ------------------------------------------------------------------------
\* Helpers
\* ------------------------------------------------------------------------
MinOf(S) == CHOOSE x \in S : \A y \in S : x <= y
MaxOf(S) == CHOOSE x \in S : \A y \in S : y <= x
Restrict(f, S) == [x \in S |-> f[x]]
EmptyMap == [x \in {} |-> x]
\* A CSV cell: the empty text, or a number printed with 6 decimals.
EmptyCell == [t |-> "", v |-> 0]

\* t_q of frame k as the synchronizer computes it: k * delta.
TQ(k) == Num(k * DeltaUnits)

\* ExportSink._fmt_val: None -> empty cell, a number -> 6 decimals fixed.
\* f"{float(v):.6f}" of a non-finite float is the text nan, inf or -inf.
FmtVal(v) ==
  IF v.t = "none" THEN EmptyCell
  ELSE IF v.t = "num" THEN [t |-> "f6", v |-> (v.v + 5) \div 10]
  ELSE [t |-> v.t, v |-> 0]

\* Key f"{dev}:{ch}" of a sample pair.
ChanKey(dev, ch) == <<dev, ch>>
ChannelSet == {Channels[i] : i \in 1..Len(Channels)}

\* ExportSink._write_marker: no-op without a markers writer.
WriteMarker(s, k, t_q, event, spike, source) ==
  IF ~s.markers_writer THEN s
  ELSE [s EXCEPT !.markers = Append(@,
          [k |-> k, t_q |-> FmtVal(t_q), event |-> event,
           spike |-> spike, source |-> source])]

\* ------------------------------------------------------------------------
\* ExportSink: packet handlers
\* ------------------------------------------------------------------------
\* The loop over pairs of _on_sample with break in place of continue: the
\* first pair outside the header ends the loop.
RECURSIVE WritePairsBreak(_, _, _)
WritePairsBreak(row, dev, pairs) ==
  IF pairs = <<>> THEN row
  ELSE LET key == ChanKey(dev, Head(pairs)[1])
           val == Head(pairs)[2]
       IN IF key \notin ChannelSet
          THEN row
          ELSE WritePairsBreak((key :> FmtVal(val)) @@ row, dev, Tail(pairs))

\* The loop over pairs of _on_sample: a pair whose key is in the header
\* overwrites the cell of its channel, any other pair is ignored.
RECURSIVE WritePairs(_, _, _)
WritePairs(row, dev, pairs) ==
  IF pairs = <<>> THEN row
  ELSE LET key == ChanKey(dev, Head(pairs)[1])
           val == Head(pairs)[2]
       IN IF key \notin ChannelSet
          THEN WritePairs(row, dev, Tail(pairs))
          ELSE WritePairs((key :> FmtVal(val)) @@ row, dev, Tail(pairs))

\* dict.setdefault(k, {}) on the row buffer.
RowOf(open_rows, k) ==
  IF k \in DOMAIN open_rows THEN open_rows[k] ELSE EmptyMap

\* _on_sample with the assignment row[key] = ... replaced by
\* row.setdefault(key, ...): the first value of a cell wins.
OnSampleFirstWins(s, pkt) ==
  [s EXCEPT
     !.k_seen_max = IF pkt.k > @ THEN pkt.k ELSE @,
     !.tq_by_k = (pkt.k :> pkt.t_q) @@ @,
     !.open_rows = (pkt.k :> (RowOf(@, pkt.k)
                              @@ WritePairs(EmptyMap, pkt.dev, pkt.pairs))) @@ @]

\* ExportSink._on_sample: ("sample", k, t_q, device, pairs).
OnSample(s, pkt) ==
  [s EXCEPT
     !.k_seen_max = IF pkt.k > @ THEN pkt.k ELSE @,
     !.tq_by_k = (pkt.k :> pkt.t_q) @@ @,
     !.open_rows = (pkt.k :> WritePairs(RowOf(@, pkt.k), pkt.dev, pkt.pairs)) @@ @]

\* ExportSink._on_event: ("event", k, t_q, label, source, current_event_after).
OnEvent(s, pkt) ==
  WriteMarker([s EXCEPT !.event_changes = (pkt.k :> pkt.after) @@ @],
              pkt.k, pkt.t_q, pkt.after, "", pkt.source)

\* ExportSink._on_spike: ("spike", k, t_q, label, source).
OnSpike(s, pkt) ==
  WriteMarker([s EXCEPT
                 !.open_rows = (pkt.k :> ((SpikeKey :> pkt.label) @@ RowOf(@, pkt.k))) @@ @,
                 !.tq_by_k = (pkt.k :> pkt.t_q) @@ @,
                 !.k_seen_max = IF pkt.k > @ THEN pkt.k ELSE @],
              pkt.k, pkt.t_q, "", pkt.label, pkt.source)

\* Dispatch on the tag in _run; an unknown tag is ignored.
OnPacket(s, pkt) ==
  IF "len" \in DOMAIN pkt THEN s
  ELSE IF pkt.tag = "sample" THEN OnSample(s, pkt)
  ELSE IF pkt.tag = "event" THEN OnEvent(s, pkt)
  ELSE IF pkt.tag = "spike" THEN OnSpike(s, pkt)
  ELSE s

\* ------------------------------------------------------------------------
\* ExportSink: commit
\* ------------------------------------------------------------------------
\* Sticky-event changes with key <= k, applied in ascending order: the
\* sticky event ends as the change with the largest key.
ApplyChanges(s, k) ==
  LET pending == {kk \in DOMAIN s.event_changes : kk <= k}
  IN IF pending = {} THEN s
     ELSE [s EXCEPT
             !.sticky_event = s.event_changes[MaxOf(pending)],
             !.event_changes = Restrict(@, DOMAIN @ \ pending)]

\* The initial marker of the first committed k.
InitialMarker(s, k, t_q) ==
  IF s.initial_marker_emitted THEN s
  ELSE [WriteMarker(s, k, t_q, s.sticky_event, "", "sync")
          EXCEPT !.initial_marker_emitted = TRUE]

\* row_map.get(col, "").
CellOf(row_map, col) ==
  IF col \in DOMAIN row_map THEN row_map[col] ELSE EmptyCell

\* The CSV row of frame k built from its buffered row.
BuildRow(s, k, t_q) ==
  LET row_map == RowOf(s.open_rows, k)
  IN [k |-> k,
      t_q |-> FmtVal(t_q),
      cells |-> [i \in 1..Len(Channels) |-> CellOf(row_map, Channels[i])],
      spike |-> IF SpikeKey \in DOMAIN row_map THEN row_map[SpikeKey] ELSE "",
      event |-> s.sticky_event]

\* The body of the for loop of _commit_until for one k.
CommitOne(s, k) ==
  LET t_q == s.tq_by_k[k]
      s1 == ApplyChanges(s, k)
      s2 == InitialMarker(s1, k, t_q)
  IN [s2 EXCEPT
        !.synced = Append(@, BuildRow(s2, k, t_q)),
        !.open_rows = Restrict(@, DOMAIN @ \ {k}),
        !.tq_by_k = Restrict(@, DOMAIN @ \ {k}),
        !.pending_committed = @ + 1]

\* A commit pass that takes the ks in descending order.
RECURSIVE CommitRowsDescending(_, _)
CommitRowsDescending(s, ks) ==
  IF ks = {} THEN s
  ELSE CommitRowsDescending(CommitOne(s, MaxOf(ks)), ks \ {MaxOf(ks)})

\* for k in ks, ks sorted ascending.
RECURSIVE CommitRows(_, _)
CommitRows(s, ks) ==
  IF ks = {} THEN s
  ELSE CommitRows(CommitOne(s, MinOf(ks)), ks \ {MinOf(ks)})

\* The keys of tq_by_k that a commit pass writes.
CommitKeys(s, k_commit) == {k \in DOMAIN s.tq_by_k : k <= k_commit}

\* The trailing cleanup of _commit_until: drop event changes <= k_commit.
CleanupChanges(s, k_commit) ==
  [s EXCEPT !.event_changes =
     Restrict(@, {kk \in DOMAIN @ : kk > k_commit})]

\* ExportSink._commit_until.
CommitUntil(s, k_commit) ==
  IF ~s.synced_writer THEN s
  ELSE IF DOMAIN s.open_rows = {} /\ DOMAIN s.tq_by_k = {} THEN s
  ELSE CleanupChanges(CommitRows(s, CommitKeys(s, k_commit)), k_commit)

\* ------------------------------------------------------------------------
\* ExportSink: construction, start, consumer loop, stop
\* ------------------------------------------------------------------------
\* The payloads the synchronizer puts on the queue of a full-rate sink.
SamplePayloads ==
  {[tag |-> "sample", k |-> k, t_q |-> TQ(k), dev |-> "A", pairs |-> p] :
     k \in 0..MaxK, p \in SamplePairs}
EventPayloads ==
  {[tag |-> "event", k |-> k, t_q |-> TQ(k), label |-> e, source |-> src,
    after |-> e] : k \in 0..MaxK, e \in EventAfter, src \in Sources}
SpikePayloads ==
  {[tag |-> "spike", k |-> k, t_q |-> TQ(k), label |-> l, source |-> src] :
     k \in 0..MaxK, l \in SpikeLabels, src \in Sources}
Payloads == SamplePayloads \cup EventPayloads \cup SpikePayloads

\* pkt = None after queue.Empty.
NoPacket == [tag |-> "none"]

\* ExportSink.__init__ with the given configuration.
NewSink(signal_enabled, marker_enabled) ==
  [L |-> Lookahead,
   k_seen_max |-> -1,
   open_rows |-> EmptyMap,
   tq_by_k |-> EmptyMap,
   event_changes |-> EmptyMap,
   sticky_event |-> DefaultEvent,
   initial_marker_emitted |-> FALSE,
   pending_committed |-> 0,
   csv_signal_enabled |-> signal_enabled,
   csv_marker_enabled |-> marker_enabled,
   synced_writer |-> FALSE,
   markers_writer |-> FALSE,
   synced |-> <<>>,
   markers |-> <<>>]

\* The state after construction, before start().
Constructed ==
  /\ \E se \in BOOLEAN, me \in BOOLEAN : sink = NewSink(se, me)
  /\ q = <<>>
  /\ thr = "none"
  /\ stop_flag = FALSE
  /\ get_expired = FALSE
  /\ idle_for = 0
  /\ since_flush = 0
  /\ synced_disk = 0
  /\ markers_disk = 0
  /\ sent = 0
  /\ idle_flushes = 0
  /\ hist = [events_seen |-> EmptyMap, overwrites |-> {}]

\* Sessions with the idle watermark disabled (IDLE_WATERMARK_SEC = 0).
ConstructedNoIdle ==
  /\ Constructed
  /\ idle_watermark = 0
  /\ budget = MaxPkts

\* Short sessions with the idle watermark disabled.
ConstructedRows ==
  /\ Constructed
  /\ idle_watermark = 0
  /\ budget = MaxPktsRows

\* Sessions with the idle watermark enabled or disabled.
ConstructedIdle ==
  /\ Constructed
  /\ idle_watermark \in {0, IdleWatermarkTicks}
  /\ budget = MaxPktsIdle

\* ExportSink.start: open the enabled files and start the consumer.
Start ==
  /\ thr = "none"
  /\ sink' = [sink EXCEPT !.synced_writer = sink.csv_signal_enabled,
                          !.markers_writer = sink.csv_marker_enabled]
  /\ stop_flag' = FALSE
  /\ thr' = "run"
  /\ UNCHANGED <<q, get_expired, idle_for, since_flush, synced_disk,
                 markers_disk, idle_watermark, sent, budget, idle_flushes, hist>>
  /\ UNCHANGED <<syncVars, auxVars>>

\* A payload is put on the queue by the synchronizer (s.put_nowait in
\* _emit_to_sinks); the sink is registered after start() and the
\* synchronizer is stopped before stop().
Put ==
  /\ thr \in {"run", "dead"}
  /\ ~stop_flag
  /\ sent < budget
  /\ Len(q) < MaxQLen
  /\ \E pkt \in Payloads : q' = Append(q, pkt)
  /\ sent' = sent + 1
  /\ UNCHANGED <<sink, thr, stop_flag, get_expired, idle_for, since_flush,
                 synced_disk, markers_disk, idle_watermark, budget, idle_flushes, hist>>
  /\ UNCHANGED <<syncVars, auxVars>>

\* Sample payloads that carry an invalid value: absent or non-finite.
InvalidValues == {None, NaN, PosInf, NegInf}
InvalidSamplePayloads ==
  {[tag |-> "sample", k |-> k, t_q |-> TQ(k), dev |-> "A",
    pairs |-> << <<"x", v>> >>] : k \in 0..MaxK, v \in InvalidValues}

\* The synchronizer puts a sample with an invalid value on the queue.
PutInvalid ==
  /\ thr \in {"run", "dead"}
  /\ ~stop_flag
  /\ sent < budget
  /\ Len(q) < MaxQLen
  /\ \E pkt \in InvalidSamplePayloads : q' = Append(q, pkt)
  /\ sent' = sent + 1
  /\ UNCHANGED <<sink, thr, stop_flag, get_expired, idle_for, since_flush,
                 synced_disk, markers_disk, idle_watermark, budget, idle_flushes, hist>>
  /\ UNCHANGED <<syncVars, auxVars>>

\* Sample payloads of one channel each: two payloads of the same k can
\* write different cells.
OrderPayloads ==
  {[tag |-> "sample", k |-> k, t_q |-> TQ(k), dev |-> "A", pairs |-> p] :
     k \in 0..MaxK,
     p \in { << <<"x", Num(10000000)>> >>, << <<"y", Num(20000000)>> >> }}

\* The synchronizer puts a one-channel sample on the queue.
PutSample ==
  /\ thr \in {"run", "dead"}
  /\ ~stop_flag
  /\ sent < budget
  /\ Len(q) < MaxQLen
  /\ \E pkt \in OrderPayloads : q' = Append(q, pkt)
  /\ sent' = sent + 1
  /\ UNCHANGED <<sink, thr, stop_flag, get_expired, idle_for, since_flush,
                 synced_disk, markers_disk, idle_watermark, budget, idle_flushes, hist>>
  /\ UNCHANGED <<syncVars, auxVars>>

\* Payloads that are not ("sample" | "event" | "spike", ...) tuples of the
\* right arity: the empty tuple, a tuple with an unknown tag, and a sample
\* tuple with two fields.
EmptyTuple == [tag |-> "()", len |-> 0]
UnknownTag == [tag |-> "bogus", len |-> 3]
ShortSample == [tag |-> "sample", len |-> 2]
MalformedPayloads == {EmptyTuple, UnknownTag, ShortSample}

\* A caller puts a malformed payload on the queue of the sink.
PutMalformed ==
  /\ thr \in {"run", "dead"}
  /\ ~stop_flag
  /\ sent < budget
  /\ Len(q) < MaxQLen
  /\ \E pkt \in MalformedPayloads : q' = Append(q, pkt)
  /\ sent' = sent + 1
  /\ UNCHANGED <<sink, thr, stop_flag, get_expired, idle_for, since_flush,
                 synced_disk, markers_disk, idle_watermark, budget, idle_flushes, hist>>
  /\ UNCHANGED <<syncVars, auxVars>>

\* One tick of wall-clock time passes while the consumer waits in
\* q.get(timeout) on an empty queue; the wait then times out.
Tick ==
  /\ thr = "run"
  /\ q = <<>>
  /\ ~get_expired
  /\ get_expired' = TRUE
  /\ idle_for' = IF idle_for < idle_watermark THEN idle_for + 1 ELSE idle_for
  /\ since_flush' = IF since_flush < FlushPeriodTicks THEN since_flush + 1
                    ELSE since_flush
  /\ UNCHANGED <<sink, q, thr, stop_flag, synced_disk, markers_disk,
                 idle_watermark, sent, budget, idle_flushes, hist>>
  /\ UNCHANGED <<syncVars, auxVars>>

\* The idle watermark test with a strict comparison.
IdleFiresStrict(idle) == idle_watermark > 0 /\ idle > idle_watermark

\* The idle watermark test of _run: the watermark is enabled and the sink
\* has been idle for at least that long.
IdleFires(idle) == idle_watermark > 0 /\ idle >= idle_watermark

\* The periodic flush test of _run.
FlushDue(s) ==
  since_flush >= FlushPeriodTicks \/ s.pending_committed >= FlushRowsThreshold

\* One iteration of the loop of _run after q.get returned pkt or timed out
\* (has_pkt = FALSE): handle the payload, commit to k_seen_max - L, apply
\* the idle watermark, flush periodically.
Iteration(has_pkt, pkt) ==
  LET idle == IF has_pkt THEN 0 ELSE idle_for
      s1 == IF has_pkt THEN OnPacket(sink, pkt) ELSE sink
      s2 == CommitUntil(s1, s1.k_seen_max - s1.L)
      forced == IdleFires(idle)
      s3 == IF forced THEN CommitUntil(s2, s2.k_seen_max) ELSE s2
      due == FlushDue(s3)
  IN /\ sink' = IF due THEN [s3 EXCEPT !.pending_committed = 0] ELSE s3
     /\ idle_for' = IF forced THEN 0 ELSE idle
     /\ since_flush' = IF due THEN 0 ELSE since_flush
     /\ synced_disk' = IF forced \/ due THEN Len(s3.synced) ELSE synced_disk
     /\ markers_disk' = IF forced \/ due THEN Len(s3.markers) ELSE markers_disk
     /\ idle_flushes' = IF has_pkt THEN 0
                        ELSE IF forced /\ idle_flushes < MaxIdleFlushes
                             THEN idle_flushes + 1
                             ELSE idle_flushes
     /\ get_expired' = FALSE

\* The header channels whose buffered cell of row k the sample replaces by
\* a different cell.
Replaced(s, pkt) ==
  {<<pkt.k, key>> : key \in
     {c \in ChannelSet :
        /\ pkt.k \in DOMAIN s.open_rows
        /\ c \in DOMAIN s.open_rows[pkt.k]
        /\ \E i \in 1..Len(pkt.pairs) :
             /\ ChanKey(pkt.dev, pkt.pairs[i][1]) = c
             /\ FmtVal(pkt.pairs[i][2]) # s.open_rows[pkt.k][c]}}

\* The history after the consumer has handled pkt.
HistAfter(h, s, pkt) ==
  IF pkt.tag = "event"
  THEN [h EXCEPT !.events_seen = (pkt.k :> pkt.after) @@ @]
  ELSE IF pkt.tag = "sample"
       THEN IF "arrived" \in DOMAIN h
            THEN [h EXCEPT !.overwrites = @ \cup Replaced(s, pkt),
                           !.arrived = Append(@, pkt)]
            ELSE [h EXCEPT !.overwrites = @ \cup Replaced(s, pkt)]
       ELSE h

\* _run: the loop test found the stop flag clear and q.get returned a
\* payload.
RunPacket ==
  /\ thr = "run"
  /\ ~stop_flag
  /\ ~get_expired
  /\ q # <<>>
  /\ Head(q) \notin MalformedPayloads
  /\ Iteration(TRUE, Head(q))
  /\ q' = Tail(q)
  /\ hist' = HistAfter(hist, sink, Head(q))
  /\ UNCHANGED <<thr, stop_flag, idle_watermark, sent, budget>>
  /\ UNCHANGED <<syncVars, auxVars>>

\* _run: q.get returned a malformed payload.  tag = pkt[0] is evaluated
\* outside the try block: on the empty tuple it raises IndexError, the
\* exception leaves _run and the thread ends without the final flush.  An
\* unknown tag matches no branch and the unpacking error of a short sample
\* is caught: the iteration goes on with the buffers unchanged.
RunMalformed ==
  /\ thr = "run"
  /\ ~stop_flag
  /\ ~get_expired
  /\ q # <<>>
  /\ Head(q) \in MalformedPayloads
  /\ q' = Tail(q)
  /\ IF Head(q) = EmptyTuple
     THEN /\ thr' = "dead"
          /\ idle_for' = 0
          /\ UNCHANGED <<sink, get_expired, since_flush, synced_disk,
                         markers_disk, idle_flushes>>
     ELSE /\ Iteration(TRUE, Head(q))
          /\ UNCHANGED thr
  /\ UNCHANGED <<stop_flag, idle_watermark, sent, budget, hist>>
  /\ UNCHANGED <<syncVars, auxVars>>

\* _run: the loop test found the stop flag clear and q.get timed out.
RunTimeout ==
  /\ thr = "run"
  /\ ~stop_flag
  /\ get_expired
  /\ Iteration(FALSE, NoPacket)
  /\ UNCHANGED <<q, thr, stop_flag, idle_watermark, sent, budget, hist>>
  /\ UNCHANGED <<syncVars, auxVars>>

\* _run: the loop ends, on the stop flag at the loop test or on the
\* "__stop__" sentinel, and the files are flushed a last time.
RunExit ==
  /\ thr = "run"
  /\ stop_flag
  /\ thr' = "exit"
  /\ synced_disk' = Len(sink.synced)
  /\ markers_disk' = Len(sink.markers)
  /\ UNCHANGED <<sink, q, stop_flag, get_expired, idle_for, since_flush,
                 idle_watermark, sent, budget, idle_flushes, hist>>
  /\ UNCHANGED <<syncVars, auxVars>>

\* ExportSink.stop, first half: set the stop flag and put the sentinel.
StopBegin ==
  /\ thr \in {"run", "dead"}
  /\ ~stop_flag
  /\ stop_flag' = TRUE
  /\ q' = Append(q, [tag |-> "__stop__"])
  /\ UNCHANGED <<sink, thr, get_expired, idle_for, since_flush, synced_disk,
                 markers_disk, idle_watermark, sent, budget, idle_flushes, hist>>
  /\ UNCHANGED <<syncVars, auxVars>>

\* A final commit that keeps the lookahead.
FinalCommitLookahead(s) == CommitUntil(s, s.k_seen_max - s.L)

\* The final commit of stop(): _commit_until(self._k_seen_max).
FinalCommit(s) == CommitUntil(s, s.k_seen_max)

\* ExportSink.stop, second half, after the join: final commit to
\* k_seen_max, then both files are flushed and closed.
StopFinish ==
  /\ thr \in {"exit", "dead"}
  /\ stop_flag
  /\ thr' = "closed"
  /\ LET s1 == FinalCommit(sink)
     IN /\ sink' = [s1 EXCEPT !.synced_writer = FALSE,
                              !.markers_writer = FALSE]
        /\ synced_disk' = Len(s1.synced)
        /\ markers_disk' = Len(s1.markers)
  /\ UNCHANGED <<q, stop_flag, get_expired, idle_for, since_flush,
                 idle_watermark, sent, budget, idle_flushes, hist>>
  /\ UNCHANGED <<syncVars, auxVars>>

NextExport ==
  \/ Start
  \/ Put
  \/ Tick
  \/ RunPacket
  \/ RunTimeout
  \/ RunExit
  \/ StopBegin
  \/ StopFinish

\* ------------------------------------------------------------------------
\* SyncManager: time helpers
\* ------------------------------------------------------------------------
\* Grid step delta in clock ticks.
DeltaTicks == 2
\* session_t0 / delta / consumer when they are None.
NoTime == -1

\* A session test that finds a session at any time.
SessionAlwaysStarted(m) == FALSE

\* "if self._session_t0 is None: raise RuntimeError" of _host_rel_now.
SessionNotStarted(m) == m.session_t0 = NoTime

\* SyncManager._host_rel_now (the session is started).
HostRelNow(m, now) == now - m.session_t0

\* _quantize with the half rounded down.
QuantizeHalfDown(t_host_est) ==
  LET k == (2 * t_host_est + DeltaTicks - 1) \div (2 * DeltaTicks)
  IN [k |-> k, t_q |-> TQ(k)]

\* SyncManager._quantize: k = int(t / delta + 0.5), t_q = k * delta.
Quantize(t_host_est) ==
  LET k == (2 * t_host_est + DeltaTicks) \div (2 * DeltaTicks)
  IN [k |-> k, t_q |-> TQ(k)]

\* DeviceAnchor created on the first packet of a device.
NewAnchor(device_ts, host_now) ==
  [dev_ts0 |-> device_ts, host_t0 |-> host_now, epoch |-> 0]

\* The anchor of dev after _map_to_host has seen device_ts: created on
\* first sight, re-anchored with epoch + 1 when device_ts is before dev_ts0.
AnchorAfter(m, dev, device_ts, now) ==
  IF dev \notin DOMAIN m.anchors THEN NewAnchor(device_ts, HostRelNow(m, now))
  ELSE IF device_ts < m.anchors[dev].dev_ts0
       THEN [dev_ts0 |-> device_ts, host_t0 |-> HostRelNow(m, now),
             epoch |-> m.anchors[dev].epoch + 1]
       ELSE m.anchors[dev]

\* _map_to_host with the device offset subtracted the wrong way round.
MapToHostReversed(anchor, device_ts) ==
  LET t_host_est == (anchor.dev_ts0 - device_ts) + anchor.host_t0
  IN IF t_host_est >= 0 THEN t_host_est ELSE 0

\* SyncManager._map_to_host: offset-only mapping, clamped to >= 0.
MapToHost(anchor, device_ts) ==
  LET t_host_est == (device_ts - anchor.dev_ts0) + anchor.host_t0
  IN IF t_host_est >= 0 THEN t_host_est ELSE 0

\* ------------------------------------------------------------------------
\* SyncManager: fan-out
\* ------------------------------------------------------------------------
\* Identities of the sink queues of the orchestrator.
ExportSinkQ == "export"
PlotSinkQ == "plot"
\* A bounded queue that a caller of add_sink_queue registers as a second
\* full-rate sink.
BoundedSinkQ == "bounded"
SinkIds == {ExportSinkQ, PlotSinkQ, BoundedSinkQ}
\* plot_decimate_dt = 1 / PLOT_DECIMATE_HZ (64 Hz) in units of 1e-7 s.
PlotDecimateDt == 156250

SeqToSet(sq) == {sq[i] : i \in 1..Len(sq)}

\* maxsize of the queue of the plot sink (4096 in the code, scaled); the
\* queue of the export sink is unbounded.
PlotQueueMaxsize == 1

\* maxsize of the bounded full-rate queue.
BoundedQueueMaxsize == 1

\* put_nowait on a sink queue raises queue.Full.
SinkFull(qs, id) ==
  \/ id = PlotSinkQ /\ Len(qs[id]) >= PlotQueueMaxsize
  \/ id = BoundedSinkQ /\ Len(qs[id]) >= BoundedQueueMaxsize

\* The fan-out without the try/except around put_nowait: the first full
\* queue of the list ends the loop.
PutAllUntilRaise(qs, sinks, payload) ==
  [id \in DOMAIN qs |->
     IF \E i \in 1..Len(sinks) :
          /\ sinks[i] = id
          /\ \A j \in 1..i : ~SinkFull(qs, sinks[j])
     THEN Append(qs[id], payload) ELSE qs[id]]

\* s.put_nowait(payload) for every queue of the list; queue.Full is
\* swallowed and the payload is lost for that sink.
PutAll(qs, sinks, payload) ==
  [id \in DOMAIN qs |->
     IF id \in SeqToSet(sinks) /\ ~SinkFull(qs, id)
     THEN Append(qs[id], payload) ELSE qs[id]]

\* Series key f"{dev}_{ch_name}" of the plot decimation.
SeriesKey(dev, ch) == <<dev, ch>>

\* The filter loop of _emit_to_plot_sinks: keep a pair when the bin of its
\* series differs from the last emitted one, and record the bin.  The
\* loop unpacks every element as (ch_name, ch_val) and raises on an
\* element that is not a pair, after the bins of the elements before it
\* were recorded.
RECURSIVE FilterPairs(_, _, _, _)
FilterPairs(last_bin, dev, pairs, bin_idx) ==
  IF pairs = <<>> THEN [kept |-> <<>>, last_bin |-> last_bin, raised |-> FALSE]
  ELSE IF Len(Head(pairs)) # 2
  THEN [kept |-> <<>>, last_bin |-> last_bin, raised |-> TRUE]
  ELSE LET key == SeriesKey(dev, Head(pairs)[1])
           keep == ~(key \in DOMAIN last_bin /\ last_bin[key] = bin_idx)
           lb == IF keep THEN (key :> bin_idx) @@ last_bin ELSE last_bin
           rest == FilterPairs(lb, dev, Tail(pairs), bin_idx)
       IN [kept |-> IF keep THEN <<Head(pairs)>> \o rest.kept ELSE rest.kept,
           last_bin |-> rest.last_bin, raised |-> rest.raised]

\* SyncManager._emit_to_plot_sinks: the plot_last_bin after the payload.
PlotLastBinAfter(m, payload) ==
  IF payload.tag # "sample" \/ m.plot_decimate_dt = 0 \/ m.plot_sinks = <<>>
  THEN m.plot_last_bin
  ELSE FilterPairs(m.plot_last_bin, payload.dev, payload.pairs,
                   payload.t_q.v \div m.plot_decimate_dt).last_bin

\* SyncManager._emit_to_plot_sinks: the sink queues after the payload.
EmitToPlotSinks(m, qs, payload) ==
  IF payload.tag # "sample" \/ m.plot_decimate_dt = 0
  THEN PutAll(qs, m.plot_sinks, payload)
  ELSE LET f == FilterPairs(m.plot_last_bin, payload.dev, payload.pairs,
                            payload.t_q.v \div m.plot_decimate_dt)
       IN IF f.raised \/ f.kept = <<>> THEN qs
          ELSE PutAll(qs, m.plot_sinks, [payload EXCEPT !.pairs = f.kept])

\* SyncManager._emit_to_sinks: full-rate sinks, then plot sinks.
EmitToSinks(m, qs, payload) ==
  LET qs1 == PutAll(qs, m.sinks, payload)
  IN IF m.plot_sinks = <<>> THEN qs1 ELSE EmitToPlotSinks(m, qs1, payload)

\* ------------------------------------------------------------------------
\* SyncManager: construction and lifecycle
\* ------------------------------------------------------------------------
\* Devices and pair lists of the packets submitted by the producers.
Devices == {"A"}
PacketPairs == { << <<"x", Num(10000000)>> >> }
\* Pair lists with an element that is not a (name, value) pair.
MalformedPairs ==
  { << <<"x", Num(10000000), Num(20000000)>> >>,
    << <<"y", Num(10000000)>>, <<"x">> >> }
\* Sources passed to the trigger API; the empty source is rejected.
TriggerSources == {"keyboard", ""}
\* max_queue of a bounded intake.
MaxQueue == 1

\* SyncManager.__init__.
NewSync(max_queue) ==
  [max_queue |-> max_queue,
   consumer |-> 0,
   stop_evt |-> FALSE,
   started |-> FALSE,
   session_t0 |-> NoTime,
   delta |-> 0,
   anchors |-> EmptyMap,
   default_event |-> "",
   current_event |-> "",
   sinks |-> <<>>,
   plot_sinks |-> <<>>,
   plot_decimate_dt |-> 0,
   plot_last_bin |-> EmptyMap]

\* The outcome of a call that returned without doing anything.
Noop(op) == [op |-> op, result |-> "noop"]
\* The outcome of a call that completed.
Done(op) == [op |-> op, result |-> "ok"]
\* The outcome of a trigger call that raised.
Raised(op, label, source) ==
  [op |-> op, result |-> "error", label |-> label, source |-> source]
\* The outcome of a trigger call that returned its payload.
Returned(op, label, source, payload) ==
  [op |-> op, result |-> "ok", label |-> label, source |-> source,
   payload |-> payload]

\* The state after construction, before start_session().
SyncConstructed ==
  /\ sm \in {NewSync(0), NewSync(MaxQueue)}
  /\ intake = <<>>
  /\ cons = <<>>
  /\ sink_q = [id \in SinkIds |-> <<>>]
  /\ clock = 0
  /\ stop_pc = "idle"
  /\ ret = Noop("init")
  /\ enq = 0
  /\ trig = 0
  /\ at_stop = {}
  /\ lastpkt = EmptyMap
  /\ held = EmptyMap

\* Calls of start_session, enqueue_packet and the triggers made so far.
Calls == Len(cons) + enq + trig

\* time.monotonic() advances.
ClockTick ==
  /\ clock < MaxClock
  /\ clock' = clock + 1
  /\ UNCHANGED <<sm, intake, cons, sink_q, stop_pc, ret, enq, trig, at_stop, limits,
                 lastpkt, held>>
  /\ UNCHANGED <<exportVars, auxVars>>

\* SyncManager.add_sink_queue.
AddSinkQueue ==
  /\ stop_pc = "idle"
  /\ \E id \in limits.sinks :
       /\ id \notin SeqToSet(sm.sinks)
       /\ sm' = [sm EXCEPT !.sinks = Append(@, id)]
  /\ UNCHANGED <<intake, cons, sink_q, clock, stop_pc, ret, enq, trig, at_stop, limits,
                 lastpkt, held>>
  /\ UNCHANGED <<exportVars, auxVars>>

\* SyncManager.add_plot_sink_queue.
AddPlotSinkQueue ==
  /\ stop_pc = "idle"
  /\ PlotSinkQ \notin SeqToSet(sm.plot_sinks)
  /\ sm' = [sm EXCEPT !.plot_sinks = Append(@, PlotSinkQ)]
  /\ UNCHANGED <<intake, cons, sink_q, clock, stop_pc, ret, enq, trig, at_stop, limits,
                 lastpkt, held>>
  /\ UNCHANGED <<exportVars, auxVars>>

\* A started test that never finds a session.
NeverStarted(m) == FALSE

\* "if self._started: return" of start_session.
AlreadyStarted(m) == m.started

\* SyncManager.start_session(delta): no-op when already started.
StartSession ==
  /\ stop_pc = "idle"
  /\ IF AlreadyStarted(sm)
     THEN /\ ret' = Noop("start_session")
          /\ UNCHANGED <<sm, cons>>
     ELSE /\ Len(cons) < limits.sessions
          /\ Calls < limits.calls
          /\ sm' = [sm EXCEPT !.default_event = DefaultEvent,
                              !.current_event = DefaultEvent,
                              !.delta = DeltaTicks,
                              !.session_t0 = clock,
                              !.anchors = EmptyMap,
                              !.plot_decimate_dt = PlotDecimateDt,
                              !.plot_last_bin = EmptyMap,
                              !.stop_evt = FALSE,
                              !.consumer = Len(cons) + 1,
                              !.started = TRUE]
          /\ cons' = Append(cons, "test")
          /\ ret' = Done("start_session")
  /\ UNCHANGED <<intake, sink_q, clock, stop_pc, enq, trig, at_stop, limits,
                 lastpkt, held>>
  /\ UNCHANGED <<exportVars, auxVars>>

\* Ids of the sample packets waiting in the intake.
QueuedIds(iq) == {iq[i].id : i \in {j \in 1..Len(iq) : iq[j].tag = "pkt"}}

\* The stop sentinel (None).
Sentinel == [tag |-> "None"]

\* A bounded intake that never reports queue.Full.
IntakeNeverFull(m, iq) == FALSE

\* put_nowait on the intake: queue.Full when the bound is reached.
IntakeFull(m, iq) == m.max_queue > 0 /\ Len(iq) >= m.max_queue

\* SyncManager.stop_session, first half: no-op when not started; else set
\* the stop event and push the sentinel (dropped when the intake is full).
StopSessionSignal ==
  /\ stop_pc = "idle"
  /\ IF ~sm.started
     THEN /\ ret' = Noop("stop_session")
          /\ UNCHANGED <<sm, intake, stop_pc, at_stop>>
     ELSE /\ sm' = [sm EXCEPT !.stop_evt = TRUE]
          /\ intake' = IF IntakeFull(sm, intake) THEN intake
                       ELSE Append(intake, Sentinel)
          /\ stop_pc' = "join"
          /\ at_stop' = QueuedIds(intake)
          /\ UNCHANGED ret
  /\ UNCHANGED <<cons, sink_q, clock, enq, trig, limits, lastpkt, held>>
  /\ UNCHANGED <<exportVars, auxVars>>

\* stop_session after the join: the consumer reference is dropped and the
\* session state, the sinks and the decimation state are cleared.
SessionCleared(m) ==
  [m EXCEPT !.consumer = 0,
            !.started = FALSE,
            !.session_t0 = NoTime,
            !.delta = 0,
            !.anchors = EmptyMap,
            !.sinks = <<>>,
            !.plot_sinks = <<>>,
            !.plot_decimate_dt = 0,
            !.plot_last_bin = EmptyMap]

\* SyncManager.stop_session, second half: the consumer has exited and the
\* join returns.
StopSessionJoin ==
  /\ stop_pc = "join"
  /\ cons[sm.consumer] = "exit"
  /\ sm' = SessionCleared(sm)
  /\ stop_pc' = "idle"
  /\ ret' = Done("stop_session")
  /\ UNCHANGED <<intake, cons, sink_q, clock, enq, trig, at_stop, limits,
                 lastpkt, held>>
  /\ UNCHANGED <<exportVars, auxVars>>

\* SyncManager.stop_session, second half: the join deadline expires while
\* the consumer is still running.
StopSessionJoinExpired ==
  /\ stop_pc = "join"
  /\ cons[sm.consumer] # "exit"
  /\ sm' = SessionCleared(sm)
  /\ stop_pc' = "idle"
  /\ ret' = [op |-> "stop_session", result |-> "expired"]
  /\ UNCHANGED <<intake, cons, sink_q, clock, enq, trig, at_stop, limits,
                 lastpkt, held>>
  /\ UNCHANGED <<exportVars, auxVars>>

\* ------------------------------------------------------------------------
\* SyncManager: intake, triggers, consumer
\* ------------------------------------------------------------------------
\* SyncManager.enqueue_packet: on a full bounded intake the oldest item is
\* removed before the packet is appended.
EnqueuePacket ==
  /\ enq < limits.enq
  /\ Calls < limits.calls
  /\ \E ts \in 0..limits.devts, dev \in Devices,
        pairs \in PacketPairs \cup (IF limits.bad THEN MalformedPairs ELSE {}) :
       LET pkt == [tag |-> "pkt", id |-> enq + 1, device_ts |-> ts,
                   dev |-> dev, pairs |-> pairs]
       IN intake' = IF IntakeFull(sm, intake)
                    THEN Append(Tail(intake), pkt)
                    ELSE Append(intake, pkt)
  /\ enq' = enq + 1
  /\ UNCHANGED <<sm, cons, sink_q, clock, stop_pc, ret, trig, at_stop, limits,
                 lastpkt, held>>
  /\ UNCHANGED <<exportVars, auxVars>>

\* A source test that accepts every source.
SourceAccepted(source) == FALSE

\* "if not source: raise ValueError" of set_event and trigger_spike.
SourceRejected(source) == source = ""

\* set_event without the toggle: the label is always adopted.
ToggleAdopts(m, label) == label

\* The toggle rule of set_event: the current event after the call.
Toggle(m, label) ==
  IF label = m.current_event
  THEN IF m.current_event # m.default_event THEN m.default_event
       ELSE m.current_event
  ELSE label

\* The payload of set_event built after the toggle.
EventPayload(m, now, source) ==
  LET qz == Quantize(HostRelNow(m, now))
  IN [tag |-> "event", k |-> qz.k, t_q |-> qz.t_q, label |-> m.current_event,
      source |-> source, after |-> m.current_event]

\* SyncManager.set_event(label, source): raises on an empty source and
\* outside a session; else toggles, emits the payload and returns it.
SetEvent ==
  /\ trig < limits.trig
  /\ Calls < limits.calls
  /\ trig' = trig + 1
  /\ \E label \in Labels, source \in TriggerSources :
       IF SourceRejected(source) \/ SessionNotStarted(sm)
       THEN /\ ret' = Raised("set_event", label, source)
            /\ UNCHANGED <<sm, sink_q>>
       ELSE LET m1 == [sm EXCEPT !.current_event = Toggle(sm, label)]
                payload == EventPayload(m1, clock, source)
            IN /\ sm' = m1
               /\ sink_q' = EmitToSinks(m1, sink_q, payload)
               /\ ret' = Returned("set_event", label, source, payload)
  /\ UNCHANGED <<intake, cons, clock, stop_pc, enq, at_stop, limits,
                 lastpkt, held>>
  /\ UNCHANGED <<exportVars, auxVars>>

\* SyncManager.trigger_spike(label, source).
TriggerSpike ==
  /\ trig < limits.trig
  /\ Calls < limits.calls
  /\ trig' = trig + 1
  /\ \E label \in SpikeLabels, source \in TriggerSources :
       IF SourceRejected(source) \/ SessionNotStarted(sm)
       THEN /\ ret' = Raised("trigger_spike", label, source)
            /\ UNCHANGED sink_q
       ELSE LET qz == Quantize(HostRelNow(sm, clock))
                payload == [tag |-> "spike", k |-> qz.k, t_q |-> qz.t_q,
                            label |-> label, source |-> source]
            IN /\ sink_q' = EmitToSinks(sm, sink_q, payload)
               /\ ret' = Returned("trigger_spike", label, source, payload)
  /\ UNCHANGED <<sm, intake, cons, clock, stop_pc, enq, at_stop, limits,
                 lastpkt, held>>
  /\ UNCHANGED <<exportVars, auxVars>>

\* The threads that call set_event: the keyboard handler of the plot sink
\* and the loop of a periodic event runner.
TriggerThreads == {"keyboard", "EventDemo"}

\* A trigger thread outside set_event.
IdleCall ==
  [pc |-> "idle", label |-> "", qz |-> Quantize(0), branch |-> "",
   seen |-> "", payload |-> [tag |-> "none"]]

\* set_event, first part: the source is the name of the thread, the call
\* raises outside a session, else quantizes the host time (no lock taken).
SetEventEnter(t) ==
  /\ trg[t].pc = "idle"
  /\ \E label \in Labels :
       trg' = [trg EXCEPT ![t] =
                 IF SessionNotStarted(sm)
                 THEN [@ EXCEPT !.pc = "raised", !.label = label]
                 ELSE [@ EXCEPT !.pc = "compare", !.label = label,
                                !.qz = Quantize(HostRelNow(sm, clock))]]
  /\ UNCHANGED <<syncVars, exportVars, tb, quant, lsl>>

\* set_event: the test target == self._current_event.
SetEventCompare(t) ==
  /\ trg[t].pc = "compare"
  /\ trg' = [trg EXCEPT ![t].pc = "write",
                        ![t].branch = IF trg[t].label = sm.current_event
                                      THEN "same" ELSE "other"]
  /\ UNCHANGED <<syncVars, exportVars, tb, quant, lsl>>

\* set_event: the branch taken writes the sticky event; on the "same"
\* branch the current event is read again and compared with the default.
SetEventWrite(t) ==
  /\ trg[t].pc = "write"
  /\ sm' = IF trg[t].branch = "other"
           THEN [sm EXCEPT !.current_event = trg[t].label]
           ELSE IF sm.current_event # sm.default_event
                THEN [sm EXCEPT !.current_event = sm.default_event]
                ELSE sm
  /\ trg' = [trg EXCEPT ![t].pc = "label"]
  /\ UNCHANGED <<intake, cons, sink_q, clock, stop_pc, ret, enq, trig,
                 at_stop, limits, lastpkt, held>>
  /\ UNCHANGED <<exportVars, tb, quant, lsl>>

\* set_event: the payload tuple reads self._current_event for its label.
SetEventReadLabel(t) ==
  /\ trg[t].pc = "label"
  /\ trg' = [trg EXCEPT ![t].pc = "after", ![t].seen = sm.current_event]
  /\ UNCHANGED <<syncVars, exportVars, tb, quant, lsl>>

\* set_event: the payload tuple reads self._current_event again for
\* current_event_after.
SetEventReadAfter(t) ==
  /\ trg[t].pc = "after"
  /\ trg' = [trg EXCEPT ![t].pc = "emit",
                        ![t].payload =
                          [tag |-> "event", k |-> trg[t].qz.k,
                           t_q |-> trg[t].qz.t_q, label |-> trg[t].seen,
                           source |-> t, after |-> sm.current_event]]
  /\ UNCHANGED <<syncVars, exportVars, tb, quant, lsl>>

\* set_event: _emit_to_sinks(payload) and return.
SetEventEmit(t) ==
  /\ trg[t].pc = "emit"
  /\ sink_q' = EmitToSinks(sm, sink_q, trg[t].payload)
  /\ trg' = [trg EXCEPT ![t].pc = "done"]
  /\ UNCHANGED <<sm, intake, cons, clock, stop_pc, ret, enq, trig, at_stop,
                 limits, lastpkt, held>>
  /\ UNCHANGED <<exportVars, tb, quant, lsl>>

\* The tagged payload _handle_sample_packet builds for a packet.
SamplePayload(m, pkt, now) ==
  LET anchor == AnchorAfter(m, pkt.dev, pkt.device_ts, now)
      qz == Quantize(MapToHost(anchor, pkt.device_ts))
  IN [tag |-> "sample", k |-> qz.k, t_q |-> qz.t_q, dev |-> pkt.dev,
      pairs |-> pkt.pairs, id |-> pkt.id]

\* SyncManager._handle_sample_packet on the manager: the anchor of the
\* device and the decimation state after the packet.  Outside a session
\* _map_to_host raises and the packet is skipped.
HandleSamplePacket(m, pkt, now) ==
  IF m.session_t0 = NoTime THEN m
  ELSE LET m1 == [m EXCEPT !.anchors =
                     (pkt.dev :> AnchorAfter(m, pkt.dev, pkt.device_ts, now)) @@ @]
       IN [m1 EXCEPT !.plot_last_bin =
             PlotLastBinAfter(m, SamplePayload(m, pkt, now))]

\* The sink queues after _handle_sample_packet.
HandleSampleEmit(m, qs, pkt, now) ==
  IF m.session_t0 = NoTime THEN qs
  ELSE EmitToSinks(m, qs, SamplePayload(m, pkt, now))

\* _handle_sample_packet raises on the packet: outside a session in
\* _map_to_host, and in the decimation loop of the plot sinks on an element
\* of the pair list that is not a pair.
HandlingRaises(m, pkt) ==
  \/ m.session_t0 = NoTime
  \/ /\ m.plot_sinks # <<>>
     /\ m.plot_decimate_dt # 0
     /\ \E i \in 1..Len(pkt.pairs) : Len(pkt.pairs[i]) # 2

\* The (channel, bin) of the sample values of the device forwarded to the
\* plot sinks in the session, in the order of the put calls, after the
\* consumer handled item: the pairs kept by the decimation filter of
\* _emit_to_plot_sinks.
PlottedAfter(h, m, item, now, session) ==
  LET prev == IF item.dev \in DOMAIN h /\ h[item.dev].session = session
              THEN h[item.dev].plotted ELSE <<>>
      payload == SamplePayload(m, item, now)
      bin_idx == payload.t_q.v \div m.plot_decimate_dt
      f == FilterPairs(m.plot_last_bin, payload.dev, payload.pairs, bin_idx)
  IN IF m.plot_sinks = <<>> \/ m.plot_decimate_dt = 0 THEN prev
     ELSE IF f.raised THEN prev
     ELSE prev \o [i \in 1..Len(f.kept) |-> <<f.kept[i][1], bin_idx>>]

\* The history after the consumer took item from the intake: a packet
\* handled in a session is recorded with the k of its payload.
SeenAfter(h, m, item, now, session) ==
  IF item.tag # "pkt" \/ m.session_t0 = NoTime THEN h
  ELSE (item.dev :> [ts |-> item.device_ts,
                     k |-> SamplePayload(m, item, now).k,
                     session |-> session,
                     plotted |-> PlottedAfter(h, m, item, now, session)]) @@ h

\* _consume_loop: the loop test.
ConsumerTest(i) ==
  /\ cons[i] = "test"
  /\ cons' = [cons EXCEPT ![i] = IF sm.stop_evt THEN "exit" ELSE "get"]
  /\ UNCHANGED <<sm, intake, sink_q, clock, stop_pc, ret, enq, trig, at_stop, limits,
                 lastpkt, held>>
  /\ UNCHANGED <<exportVars, auxVars>>

\* _consume_loop: _q.get returned an item; the sentinel ends the loop, a
\* packet is handled and emitted.
ConsumerGet(i) ==
  /\ cons[i] = "get"
  /\ intake # <<>>
  /\ intake' = Tail(intake)
  /\ IF Head(intake).tag = "None"
     THEN /\ cons' = [cons EXCEPT ![i] = "exit"]
          /\ UNCHANGED <<sm, sink_q>>
     ELSE /\ cons' = [cons EXCEPT ![i] = "test"]
          /\ sm' = HandleSamplePacket(sm, Head(intake), clock)
          /\ sink_q' = HandleSampleEmit(sm, sink_q, Head(intake), clock)
  /\ lastpkt' = SeenAfter(lastpkt, sm, Head(intake), clock, Len(cons))
  /\ UNCHANGED <<clock, stop_pc, ret, enq, trig, at_stop, limits, held>>
  /\ UNCHANGED <<exportVars, auxVars>>

\* _consume_loop: _q.get returned a packet; the thread is suspended before
\* it handles the packet.
ConsumerTake(i) ==
  /\ cons[i] = "get"
  /\ intake # <<>>
  /\ Head(intake).tag = "pkt"
  /\ intake' = Tail(intake)
  /\ cons' = [cons EXCEPT ![i] = "handle"]
  /\ held' = (i :> Head(intake)) @@ held
  /\ UNCHANGED <<sm, sink_q, clock, stop_pc, ret, enq, trig, at_stop, limits,
                 lastpkt>>
  /\ UNCHANGED <<exportVars, auxVars>>

\* _consume_loop: the thread handles the packet it holds and emits the
\* payload.
ConsumerHandle(i) ==
  /\ cons[i] = "handle"
  /\ cons' = [cons EXCEPT ![i] = "test"]
  /\ sm' = HandleSamplePacket(sm, held[i], clock)
  /\ sink_q' = HandleSampleEmit(sm, sink_q, held[i], clock)
  /\ lastpkt' = SeenAfter(lastpkt, sm, held[i], clock, Len(cons))
  /\ held' = Restrict(held, DOMAIN held \ {i})
  /\ UNCHANGED <<intake, clock, stop_pc, ret, enq, trig, at_stop, limits>>
  /\ UNCHANGED <<exportVars, auxVars>>

\* _consume_loop: _q.get timed out on an empty intake (continue).
ConsumerTimeout(i) ==
  /\ cons[i] = "get"
  /\ intake = <<>>
  /\ cons' = [cons EXCEPT ![i] = "test"]
  /\ UNCHANGED <<sm, intake, sink_q, clock, stop_pc, ret, enq, trig, at_stop, limits,
                 lastpkt, held>>
  /\ UNCHANGED <<exportVars, auxVars>>

\* The orchestrator runs without the plot sink (PLOT_ENABLE off).
NextSync ==
  \/ ClockTick
  \/ AddSinkQueue
  \/ StartSession
  \/ StopSessionSignal
  \/ StopSessionJoin
  \/ StopSessionJoinExpired
  \/ EnqueuePacket
  \/ SetEvent
  \/ TriggerSpike
  \/ \E i \in 1..Len(cons) : ConsumerTest(i)
  \/ \E i \in 1..Len(cons) : ConsumerGet(i)
  \/ \E i \in 1..Len(cons) : ConsumerTimeout(i)

\* Every stop_session is a full stop: the join returns after the consumer
\* has exited.
NextSyncFullStop ==
  \/ ClockTick
  \/ AddSinkQueue
  \/ StartSession
  \/ StopSessionSignal
  \/ StopSessionJoin
  \/ EnqueuePacket
  \/ SetEvent
  \/ TriggerSpike
  \/ \E i \in 1..Len(cons) : ConsumerTest(i)
  \/ \E i \in 1..Len(cons) : ConsumerGet(i)
  \/ \E i \in 1..Len(cons) : ConsumerTimeout(i)

\* PlotSink._on_timer: the redraw timer drains the queue of the plot sink.
PlotTimer ==
  /\ sink_q[PlotSinkQ] # <<>>
  /\ sink_q' = [sink_q EXCEPT ![PlotSinkQ] = <<>>]
  /\ UNCHANGED <<sm, intake, cons, clock, stop_pc, ret, enq, trig, at_stop,
                 limits, lastpkt, held>>
  /\ UNCHANGED <<exportVars, auxVars>>

\* A session in which the trigger threads call set_event concurrently;
\* the producers are silent.
NextSyncRace ==
  \/ ClockTick
  \/ AddSinkQueue
  \/ StartSession
  \/ \E i \in 1..Len(cons) : ConsumerTest(i)
  \/ \E i \in 1..Len(cons) : ConsumerTimeout(i)
  \/ \E t \in TriggerThreads : SetEventEnter(t)
  \/ \E t \in TriggerThreads : SetEventCompare(t)
  \/ \E t \in TriggerThreads : SetEventWrite(t)
  \/ \E t \in TriggerThreads : SetEventReadLabel(t)
  \/ \E t \in TriggerThreads : SetEventReadAfter(t)
  \/ \E t \in TriggerThreads : SetEventEmit(t)

\* Sessions without marker triggers: the producers, the consumer and the
\* lifecycle.
NextSyncProducers ==
  \/ ClockTick
  \/ AddSinkQueue
  \/ StartSession
  \/ StopSessionSignal
  \/ StopSessionJoin
  \/ StopSessionJoinExpired
  \/ EnqueuePacket
  \/ \E i \in 1..Len(cons) : ConsumerTest(i)
  \/ \E i \in 1..Len(cons) : ConsumerGet(i)
  \/ \E i \in 1..Len(cons) : ConsumerTimeout(i)

\* Sessions without marker triggers, with the plot sink of the GUI.
NextSyncDecimate ==
  \/ NextSyncProducers
  \/ AddPlotSinkQueue
  \/ PlotTimer

\* One session with its sinks, producers, triggers and consumer; the
\* session is not stopped.
NextSyncFanout ==
  \/ AddSinkQueue
  \/ AddPlotSinkQueue
  \/ PlotTimer
  \/ StartSession
  \/ EnqueuePacket
  \/ SetEvent
  \/ TriggerSpike
  \/ \E i \in 1..Len(cons) : ConsumerTest(i)
  \/ \E i \in 1..Len(cons) : ConsumerGet(i)
  \/ \E i \in 1..Len(cons) : ConsumerTimeout(i)

\* Sessions without marker triggers in which a consumer thread can be
\* suspended between _q.get and the handling of the packet.
NextSyncFifo ==
  \/ NextSyncProducers
  \/ \E i \in 1..Len(cons) : ConsumerTake(i)
  \/ \E i \in 1..Len(cons) : ConsumerHandle(i)

\* Sessions with silent producers: the lifecycle, the triggers and the
\* consumer.
NextSyncTriggers ==
  \/ ClockTick
  \/ AddSinkQueue
  \/ StartSession
  \/ StopSessionSignal
  \/ StopSessionJoin
  \/ StopSessionJoinExpired
  \/ SetEvent
  \/ TriggerSpike
  \/ \E i \in 1..Len(cons) : ConsumerTest(i)
  \/ \E i \in 1..Len(cons) : ConsumerGet(i)
  \/ \E i \in 1..Len(cons) : ConsumerTimeout(i)

\* The orchestrator registers the plot sink too (PLOT_ENABLE on).
NextSyncPlot ==
  \/ NextSync
  \/ AddPlotSinkQueue
  \/ PlotTimer

\* ------------------------------------------------------------------------
\* shimmer_timebase: 16-bit device ticks to seconds
\* ------------------------------------------------------------------------
\* _TICK_RATE_HZ and _COUNTER_MOD.
TickRateHz == 32768
CounterMod == 65536
\* start / last before the first packet (None).
NoTick == -1
\* Raw ticks of the packets of the model, all in [0, COUNTER_MOD).
RawTicks == {0, 3, 10, 65530, 65535}
\* Keys of the timebase (the device name; "default" when omitted).
TimebaseKeys == {"default"}

\* The entry reset() stores and setdefault() creates.
FreshEntry == [start |-> NoTick, last |-> NoTick, offset |-> 0]

\* _STATE.setdefault(key, fresh entry).
EntryOf(state, key) ==
  IF key \in DOMAIN state THEN state[key] ELSE FreshEntry

\* The entry with the rollover test left out.
EntryAfterNoWrap(st, ts_raw) ==
  IF st.start = NoTick
  THEN [start |-> ts_raw, last |-> ts_raw, offset |-> 0]
  ELSE [st EXCEPT !.last = ts_raw]

\* The entry of a key after device_time_s has seen ts_raw: anchored on the
\* first packet, else offset + COUNTER_MOD when the tick is below the last.
EntryAfter(st, ts_raw) ==
  IF st.start = NoTick
  THEN [start |-> ts_raw, last |-> ts_raw, offset |-> 0]
  ELSE [st EXCEPT !.offset = IF ts_raw < st.last THEN @ + CounterMod ELSE @,
                  !.last = ts_raw]

\* Total ticks without the anchor subtracted.
TotalTicksFromZero(st, ts_raw) == EntryAfter(st, ts_raw).offset + ts_raw

\* total_ticks = offset + (ts_raw - start), on the updated entry.
TotalTicks(st, ts_raw) ==
  LET e == EntryAfter(st, ts_raw) IN e.offset + (ts_raw - e.start)

\* float(total_ticks) / _TICK_RATE_HZ as the fraction num / den.
Seconds(total_ticks) == [num |-> total_ticks, den |-> TickRateHz]

\* The state of the module after import.
TimebaseLoaded ==
  tb = [state |-> EmptyMap, calls |-> <<>>]

\* shimmer_timebase.reset(key).
TimebaseReset ==
  /\ \E key \in TimebaseKeys :
       tb' = [state |-> (key :> FreshEntry) @@ tb.state, calls |-> <<>>]
  /\ UNCHANGED <<exportVars, syncVars, trg, quant, lsl>>

\* shimmer_timebase.device_time_s(pkt, key).
DeviceTimeS ==
  /\ Len(tb.calls) < MaxTicks
  /\ \E key \in TimebaseKeys, ts_raw \in RawTicks :
       LET st == EntryOf(tb.state, key)
       IN tb' = [state |-> (key :> EntryAfter(st, ts_raw)) @@ tb.state,
                 calls |-> Append(tb.calls,
                             [raw |-> ts_raw,
                              wrap |-> st.start # NoTick /\ ts_raw < st.last,
                              t |-> Seconds(TotalTicks(st, ts_raw))])]
  /\ UNCHANGED <<exportVars, syncVars, trg, quant, lsl>>

NextTimebase ==
  \/ TimebaseReset
  \/ DeviceTimeS

\* ------------------------------------------------------------------------
\* SyncManager: the quantizer for a grid step delta
\* ------------------------------------------------------------------------
\* Grid steps delta = m * 10^-e s that start_session is called with
\* (1 <= m < 10): 0.01, 0.004, 1e-9, 5e-10 and 1e-10.
GridSteps ==
  {[m |-> 1, e |-> 2], [m |-> 4, e |-> 3], [m |-> 1, e |-> 9],
   [m |-> 5, e |-> 10], [m |-> 1, e |-> 10]}
\* _delta before start_session (None).
NoDelta == [m |-> 0, e |-> 0]
\* Numbers of _quantize calls and largest host time, in ticks of
\* delta / DeltaTicks, of the runs about the quantizer.
MaxQuantCalls == 2
MaxHostTicks == 5

RECURSIVE Pow10(_)
Pow10(n) == IF n <= 0 THEN 1 ELSE 10 * Pow10(n - 1)

\* SyncManager._decimals_from_delta: max(0, min(9, ceil(-log10 delta) + 2));
\* ceil(-log10(m * 10^-e)) = e for 1 <= m < 10.
DecimalsFromDelta(delta) ==
  LET d == delta.e + 2
  IN IF d > 9 THEN 9 ELSE IF d < 0 THEN 0 ELSE d

\* SyncManager._floor_to_decimals(k * delta, decimals), in units of
\* 10^-decimals s: floor(k * m * 10^(decimals - e)).
FloorToDecimals(k, delta, decimals) ==
  IF decimals >= delta.e
  THEN k * delta.m * Pow10(decimals - delta.e)
  ELSE (k * delta.m) \div Pow10(delta.e - decimals)

\* The quantizer before start_session.
QuantizerUnset ==
  quant = [delta |-> NoDelta, decimals |-> 0, calls |-> <<>>]

\* start_session(delta): _delta and _tq_decimals are set.
QuantStartSession ==
  /\ quant.delta = NoDelta
  /\ \E delta \in GridSteps :
       quant' = [delta |-> delta, decimals |-> DecimalsFromDelta(delta),
                 calls |-> <<>>]
  /\ UNCHANGED <<exportVars, syncVars, tb, trg, lsl>>

\* SyncManager._quantize(t_host_est) in the session.
QuantizeCall ==
  /\ quant.delta # NoDelta
  /\ Len(quant.calls) < MaxQuantCalls
  /\ \E t \in 0..MaxHostTicks :
       LET k == Quantize(t).k
       IN quant' = [quant EXCEPT !.calls = Append(@,
                      [t |-> t, k |-> k,
                       t_q |-> FloorToDecimals(k, quant.delta, quant.decimals)])]
  /\ UNCHANGED <<exportVars, syncVars, tb, trg, lsl>>

NextQuantizer ==
  \/ QuantStartSession
  \/ QuantizeCall

\* ------------------------------------------------------------------------
\* UnicornLSLTimebase: uniform 1/fs ticks anchored on the first LSL stamp
\* ------------------------------------------------------------------------
\* _dt = 1 / fs and _soft_gap_sec (0.250 s), in time units of the model.
LslDt == 1
SoftGap == 3
\* Largest LSL stamp, and number of next_tick calls since the anchor.
MaxStamp == 4
MaxLslCalls == 4
\* last_seen_lsl_stamp = None.
NoStamp == -1
\* The LSL stamps of the samples: any order, repeated or not.
Stamps == 0..MaxStamp

\* UnicornLSLTimebase.__init__ / reset.
LslFresh == [anchored |-> FALSE, t_curr |-> 0, last_wall |-> 0, calls |-> <<>>]
LslConstructed == lsl = LslFresh

\* prime_from_first_stamp(first_stamp).
Primed(first_stamp) ==
  [anchored |-> TRUE, t_curr |-> first_stamp, last_wall |-> first_stamp,
   calls |-> <<>>]

\* next_tick without the soft realign: the stamp is only recorded.
TickAfterNoRealign(st, stamp) ==
  LET a == IF st.anchored THEN st
           ELSE Primed(IF stamp = NoStamp THEN 0 ELSE stamp)
      out == a.t_curr
  IN [anchored |-> TRUE,
      t_curr |-> out + LslDt,
      last_wall |-> IF stamp = NoStamp THEN a.last_wall ELSE stamp,
      calls |-> Append(a.calls,
                  [stamp |-> stamp, last_wall |-> a.last_wall, out |-> out])]

\* next_tick(last_seen_lsl_stamp): the state after the call; the call is
\* added to the history with the stamp, the _last_wall it was compared
\* with and the returned tick.
TickAfter(st, stamp) ==
  LET a == IF st.anchored THEN st
           ELSE Primed(IF stamp = NoStamp THEN 0 ELSE stamp)
      realign == stamp # NoStamp /\ stamp - a.last_wall >= SoftGap
      out == IF realign THEN stamp ELSE a.t_curr
  IN [anchored |-> TRUE,
      t_curr |-> out + LslDt,
      last_wall |-> IF stamp = NoStamp THEN a.last_wall ELSE stamp,
      calls |-> Append(a.calls,
                  [stamp |-> stamp, last_wall |-> a.last_wall, out |-> out])]

LslReset ==
  /\ lsl # LslFresh
  /\ lsl' = LslFresh
  /\ UNCHANGED <<exportVars, syncVars, tb, trg, quant>>

PrimeFromFirstStamp ==
  /\ ~lsl.anchored
  /\ \E first_stamp \in Stamps : lsl' = Primed(first_stamp)
  /\ UNCHANGED <<exportVars, syncVars, tb, trg, quant>>

NextTick ==
  /\ Len(lsl.calls) < MaxLslCalls
  /\ \E stamp \in Stamps \cup {NoStamp} : lsl' = TickAfter(lsl, stamp)
  /\ UNCHANGED <<exportVars, syncVars, tb, trg, quant>>

NextLsl ==
  \/ LslReset
  \/ PrimeFromFirstStamp
  \/ NextTick

\* ------------------------------------------------------------------------
\* Specifications
\* ------------------------------------------------------------------------
vars == <<exportVars, syncVars, auxVars>>

\* No trigger thread is inside set_event.
TriggersIdle == trg = [t \in TriggerThreads |-> IdleCall]

\* The export sink alone: the synchronizer is not part of the run.
SyncUnused ==
  /\ TimebaseLoaded
  /\ TriggersIdle
  /\ QuantizerUnset
  /\ LslConstructed
  /\ sm = NewSync(0)
  /\ intake = <<>>
  /\ cons = <<>>
  /\ sink_q = [id \in SinkIds |-> <<>>]
  /\ clock = 0
  /\ stop_pc = "idle"
  /\ ret = Noop("init")
  /\ enq = 0
  /\ trig = 0
  /\ at_stop = {}
  /\ lastpkt = EmptyMap
  /\ held = EmptyMap
  /\ limits = [enq |-> 0, trig |-> 0, sessions |-> 0, calls |-> 0,
               bad |-> FALSE, devts |-> MaxDevTs,
               sinks |-> {ExportSinkQ}]

\* The synchronizer alone: its sinks are plain queues.
ExportUnused ==
  /\ TimebaseLoaded
  /\ TriggersIdle
  /\ QuantizerUnset
  /\ LslConstructed
  /\ sink = NewSink(TRUE, TRUE)
  /\ q = <<>>
  /\ thr = "none"
  /\ stop_flag = FALSE
  /\ get_expired = FALSE
  /\ idle_for = 0
  /\ since_flush = 0
  /\ synced_disk = 0
  /\ markers_disk = 0
  /\ idle_watermark = 0
  /\ sent = 0
  /\ budget = 0
  /\ idle_flushes = 0
  /\ hist = [events_seen |-> EmptyMap, overwrites |-> {}]

InitExport == ConstructedNoIdle /\ SyncUnused
InitExportRows == ConstructedRows /\ SyncUnused
InitExportIdle == ConstructedIdle /\ SyncUnused
\* Sessions that write the synced CSV with the idle watermark enabled.
InitExportFair ==
  /\ Constructed
  /\ sink.csv_signal_enabled
  /\ idle_watermark = IdleWatermarkTicks
  /\ budget = MaxPktsFair
  /\ SyncUnused
\* Runs about the triggers and the lifecycle.
InitSync ==
  /\ SyncConstructed
  /\ limits = [enq |-> MaxEnqTrig, trig |-> MaxTrig, sessions |-> MaxSessions,
               calls |-> MaxCalls, bad |-> FALSE, devts |-> MaxDevTs,
               sinks |-> {ExportSinkQ}]
  /\ ExportUnused
\* Runs about the intake and the consumer.
InitSyncIntake ==
  /\ SyncConstructed
  /\ limits = [enq |-> MaxEnq, trig |-> MaxTrigEnq, sessions |-> MaxSessions,
               calls |-> MaxEnq + MaxTrigEnq + MaxSessions, bad |-> FALSE, devts |-> MaxDevTs,
               sinks |-> {ExportSinkQ}]
  /\ ExportUnused

\* Runs in which the session is stopped and started again.
InitSyncRestart ==
  /\ SyncConstructed
  /\ limits = [enq |-> MaxEnqTrig, trig |-> MaxTrigEnq,
               sessions |-> MaxSessionsRestart,
               calls |-> MaxEnqTrig + MaxTrigEnq + MaxSessionsRestart,
               bad |-> FALSE, devts |-> MaxDevTs,
               sinks |-> {ExportSinkQ}]
  /\ ExportUnused

\* Runs about the device anchors: three packets of one session.
InitSyncAnchor ==
  /\ SyncConstructed
  /\ limits = [enq |-> MaxEnqAnchor, trig |-> MaxTrigEnq,
               sessions |-> MaxSessions,
               calls |-> MaxEnqAnchor + MaxTrigEnq + MaxSessions,
               bad |-> FALSE, devts |-> MaxDevTs,
               sinks |-> {ExportSinkQ}]
  /\ ExportUnused
\* Runs about the k of consecutive packets.
InitSyncMono ==
  /\ SyncConstructed
  /\ limits = [enq |-> MaxEnq, trig |-> MaxTrigEnq, sessions |-> MaxSessions,
               calls |-> MaxCalls, bad |-> FALSE, devts |-> MaxDevTs,
               sinks |-> {ExportSinkQ}]
  /\ ExportUnused

\* Runs in which only the trigger threads call the synchronizer.
InitSyncRace ==
  /\ SyncConstructed
  /\ limits = [enq |-> 0, trig |-> 0, sessions |-> MaxSessions,
               calls |-> MaxCalls, bad |-> FALSE, devts |-> MaxDevTs,
               sinks |-> {ExportSinkQ}]
  /\ ExportUnused

\* Runs in which the producers also submit malformed pair lists.
InitSyncMalformed ==
  /\ SyncConstructed
  /\ limits = [enq |-> MaxEnq, trig |-> MaxTrigEnq, sessions |-> MaxSessions,
               calls |-> MaxCalls, bad |-> TRUE, devts |-> MaxDevTs,
               sinks |-> {ExportSinkQ}]
  /\ ExportUnused

\* Runs about repeated lifecycle calls: up to two sessions.
InitSyncLifecycle ==
  /\ SyncConstructed
  /\ limits = [enq |-> 0, trig |-> MaxTrigEnq,
               sessions |-> MaxSessionsRestart, calls |-> MaxCalls,
               bad |-> FALSE, devts |-> MaxDevTs,
               sinks |-> {ExportSinkQ}]
  /\ ExportUnused

\* Runs about the plot decimation: three packets whose device_ts spans two
\* decimation bins.
InitSyncDecimate ==
  /\ SyncConstructed
  /\ limits = [enq |-> MaxEnqAnchor, trig |-> 0,
               sessions |-> MaxSessions, calls |-> MaxEnqAnchor + MaxSessions,
               bad |-> FALSE, devts |-> MaxDevTsPlot,
               sinks |-> {ExportSinkQ}]
  /\ ExportUnused

\* Runs about the fan-out: add_sink_queue is called with the queue of the
\* export sink and with a bounded queue, in either order.
InitSyncFanout ==
  /\ SyncConstructed
  /\ limits = [enq |-> MaxEnq, trig |-> MaxTrigEnq, sessions |-> MaxSessions,
               calls |-> MaxCalls, bad |-> FALSE, devts |-> 0,
               sinks |-> {ExportSinkQ, BoundedSinkQ}]
  /\ ExportUnused

\* Runs about the order of the payloads: two packets, and a session
\* that is stopped and started again.
InitSyncFifo ==
  /\ SyncConstructed
  /\ limits = [enq |-> MaxEnq, trig |-> 0, sessions |-> MaxSessionsRestart,
               calls |-> MaxEnq + MaxSessionsRestart, bad |-> FALSE,
               devts |-> 0, sinks |-> {ExportSinkQ}]
  /\ ExportUnused

\* The time helpers alone: the device timebases and the quantizer.
InitTimebase == SyncUnused /\ ExportUnused

\* Runs about the drop-oldest policy: intakes with max_queue 0, 1, ...
InitSyncDrop ==
  /\ sm \in {NewSync(n) : n \in 0..MaxQueueDrop}
  /\ intake = <<>>
  /\ cons = <<>>
  /\ sink_q = [id \in SinkIds |-> <<>>]
  /\ clock = 0
  /\ stop_pc = "idle"
  /\ ret = Noop("init")
  /\ enq = 0
  /\ trig = 0
  /\ at_stop = {}
  /\ lastpkt = EmptyMap
  /\ held = EmptyMap
  /\ limits = [enq |-> MaxEnqAnchor, trig |-> 0,
               sessions |-> MaxSessions, calls |-> MaxCalls, bad |-> FALSE, devts |-> MaxDevTs,
               sinks |-> {ExportSinkQ}]
  /\ ExportUnused

\* The export sink with callers that also put malformed payloads.
NextExportMalformed ==
  \/ NextExport
  \/ PutMalformed
  \/ RunMalformed

\* The export sink fed with one-channel samples only.
NextExportOrder ==
  \/ Start
  \/ PutSample
  \/ Tick
  \/ RunPacket
  \/ RunTimeout
  \/ RunExit
  \/ StopBegin
  \/ StopFinish

\* Sessions about the arrival order: lookahead of two steps, the idle
\* watermark enabled or disabled, the arrived samples recorded in order.
InitExportOrder ==
  /\ \E se \in BOOLEAN, me \in BOOLEAN :
       sink = [NewSink(se, me) EXCEPT !.L = LookaheadOrder]
  /\ q = <<>>
  /\ thr = "none"
  /\ stop_flag = FALSE
  /\ get_expired = FALSE
  /\ idle_for = 0
  /\ since_flush = 0
  /\ synced_disk = 0
  /\ markers_disk = 0
  /\ sent = 0
  /\ idle_flushes = 0
  /\ hist = [events_seen |-> EmptyMap, overwrites |-> {}, arrived |-> <<>>]
  /\ idle_watermark \in {0, IdleWatermarkTicks}
  /\ budget = MaxPktsRows
  /\ SyncUnused

SpecExportOrder == InitExportOrder /\ [][NextExportOrder]_vars

\* The export sink fed with valid and invalid sample values.
NextExportValues ==
  \/ NextExport
  \/ PutInvalid

SpecExportValues == InitExportRows /\ [][NextExportValues]_vars
SpecExportMalformed == InitExport /\ [][NextExportMalformed]_vars
SpecExport == InitExport /\ [][NextExport]_vars
SpecExportRows == InitExportRows /\ [][NextExport]_vars
SpecExportIdle == InitExportIdle /\ [][NextExport]_vars
SpecSync == InitSync /\ [][NextSync]_vars
SpecSyncIntake == InitSyncIntake /\ [][NextSync]_vars
SpecSyncPlot == InitSync /\ [][NextSyncPlot]_vars
SpecSyncAnchor == InitSyncAnchor /\ [][NextSync]_vars
SpecSyncMono == InitSyncMono /\ [][NextSync]_vars
SpecTimebase == InitTimebase /\ [][NextTimebase]_vars
SpecSyncDrop == InitSyncDrop /\ [][NextSyncProducers]_vars
SpecSyncRace == InitSyncRace /\ [][NextSyncRace]_vars
SpecSyncMalformed == InitSyncMalformed /\ [][NextSyncPlot]_vars
SpecSyncLifecycle == InitSyncLifecycle /\ [][NextSyncTriggers]_vars
SpecSyncDecimate == InitSyncDecimate /\ [][NextSyncDecimate]_vars
SpecSyncFanout == InitSyncFanout /\ [][NextSyncFanout]_vars
SpecSyncFifo == InitSyncFifo /\ [][NextSyncFifo]_vars
SpecQuantizer == InitTimebase /\ [][NextQuantizer]_vars
SpecLsl == InitTimebase /\ [][NextLsl]_vars
SpecSyncRestart == InitSyncRestart /\ [][NextSyncFullStop]_vars

\* The export sink under fair scheduling: time passes while the consumer
\* waits, the consumer thread runs, and the caller of stop() proceeds after
\* the join.
SpecExportFair ==
  /\ InitExportFair
  /\ [][NextExport]_vars
  /\ WF_vars(Tick)
  /\ WF_vars(RunPacket)
  /\ WF_vars(RunTimeout)
  /\ WF_vars(RunExit)
  /\ WF_vars(StopFinish)

\* ------------------------------------------------------------------------
\* Properties of the export sink
\* ------------------------------------------------------------------------
\* The consumer handles the payload at the head of the queue in this step.
HandlesHead == q # <<>> /\ q' = Tail(q)

\* The k of the rows written to the synced CSV in this step.
NewRowKs ==
  {sink'.synced[i].k : i \in (Len(sink.synced) + 1)..Len(sink'.synced)}

\* The k of all rows of the synced CSV.
RowKs == {sink.synced[i].k : i \in 1..Len(sink.synced)}

\* C1: a sample payload handled while its k <= k_seen_max - L is dropped:
\* no row for that k is written because of it.
C1_LateSampleDropped ==
  [][(HandlesHead /\ Head(q).tag = "sample"
        /\ Head(q).k <= sink.k_seen_max - Lookahead)
     => Head(q).k \notin NewRowKs]_vars

\* C2: the k of the rows of the synced CSV are strictly increasing in write
\* order.
C2_RowsStrictlyIncreasing ==
  \A i, j \in 1..Len(sink.synced) :
    i < j => sink.synced[i].k < sink.synced[j].k

\* The label the event column of a row of frame k must carry: that of the
\* event change with the largest k' <= k handled so far.
ExpectedEvent(seen, k) ==
  seen[MaxOf({kk \in DOMAIN seen : kk <= k})]

\* C3: every row written after an event payload with index k' was handled,
\* with k >= k', carries the current_event_after of that payload unless an
\* event change at a larger k'' <= k supersedes it.
C3_StickyPropagation ==
  [][\A i \in (Len(sink.synced) + 1)..Len(sink'.synced) :
       LET r == sink'.synced[i]
       IN (\E kk \in DOMAIN hist'.events_seen : kk <= r.k)
          => r.event = ExpectedEvent(hist'.events_seen, r.k)]_vars

\* The value of the last pair of the list written to the channel key.
RECURSIVE LastValue(_, _, _, _)
LastValue(dev, pairs, key, dflt) ==
  IF pairs = <<>> THEN dflt
  ELSE LastValue(dev, Tail(pairs), key,
                 IF ChanKey(dev, Head(pairs)[1]) = key
                 THEN FmtVal(Head(pairs)[2]) ELSE dflt)

\* The cell of channel number c of frame k after this step: the buffered
\* one while the row is open, else the one of the row written in this step.
CellAfter(k, c) ==
  IF k \in DOMAIN sink'.open_rows
  THEN CellOf(sink'.open_rows[k], Channels[c])
  ELSE LET i == MaxOf({j \in (Len(sink.synced) + 1)..Len(sink'.synced) :
                         sink'.synced[j].k = k})
       IN sink'.synced[i].cells[c]

\* C4: latest wins per (k, channel).  In every step, a buffered or newly
\* handled row k stays buffered or is written; the cell of a header channel
\* that the sample handled in this step carries is the formatted value of
\* the sample (of its last pair for the channel), and every other cell of
\* the row keeps what the earlier payloads wrote.
C4_LatestWins ==
  [][\A k \in DOMAIN sink.open_rows \cup
              (IF HandlesHead /\ Head(q).tag = "sample" THEN {Head(q).k} ELSE {}) :
       /\ k \in DOMAIN sink'.open_rows \/ k \in NewRowKs
       /\ \A c \in 1..Len(Channels) :
            CellAfter(k, c) =
              IF HandlesHead /\ Head(q).tag = "sample" /\ Head(q).k = k
              THEN LastValue(Head(q).dev, Head(q).pairs, Channels[c],
                             CellOf(RowOf(sink.open_rows, k), Channels[c]))
              ELSE CellOf(RowOf(sink.open_rows, k), Channels[c])]_vars

\* This step is the return of ExportSink.stop().
StopReturns == thr # "closed" /\ thr' = "closed"

\* C24: final commit on stop.  With the signal CSV enabled, when stop()
\* returns every buffered k has been written as a row in this call, held
\* back by the lookahead or not; the row buffer and the k -> t_q map are
\* empty, both files are closed and all rows are on disk.
C24_FinalCommit ==
  [][(StopReturns /\ sink.csv_signal_enabled) =>
       /\ DOMAIN sink.open_rows \cup DOMAIN sink.tq_by_k \subseteq NewRowKs
       /\ DOMAIN sink'.open_rows = {}
       /\ DOMAIN sink'.tq_by_k = {}
       /\ ~sink'.synced_writer
       /\ ~sink'.markers_writer
       /\ synced_disk' = Len(sink'.synced)]_vars

\* Witness of C24: the sink is stopped and its synced CSV has two rows or
\* more, the last with k = k_seen_max, which only the final commit writes.
C24_Witness ==
  /\ thr = "closed"
  /\ sink.csv_signal_enabled
  /\ Len(sink.synced) >= 2
  /\ sink.synced[Len(sink.synced)].k = sink.k_seen_max

\* Every arrived sample was on time: its k > k_seen_max - L on arrival.
OnTime(arrived, L) ==
  \A i \in 1..Len(arrived) :
    arrived[i].k > MaxOf({-1} \cup {arrived[j].k : j \in 1..(i - 1)}) - L

\* The header channels a sample payload writes.
Writes(p) ==
  {c \in ChannelSet : \E i \in 1..Len(p.pairs) : ChanKey(p.dev, p.pairs[i][1]) = c}

\* No (k, device:channel) cell is written by more than one arrived payload.
NoConflict(arrived) ==
  \A i, j \in 1..Len(arrived) :
    (i # j /\ arrived[i].k = arrived[j].k) =>
       Writes(arrived[i]) \cap Writes(arrived[j]) = {}

\* The row of frame k that a set of sample payloads without conflicts
\* determines.
RowFromSet(S, k) ==
  [k |-> k,
   t_q |-> FmtVal(TQ(k)),
   cells |-> [c \in 1..Len(Channels) |->
                LET P == {p \in S : p.k = k /\ Channels[c] \in Writes(p)}
                IN IF P = {} THEN EmptyCell
                   ELSE LET p == CHOOSE p \in P : TRUE
                        IN LastValue(p.dev, p.pairs, Channels[c], EmptyCell)],
   spike |-> "",
   event |-> DefaultEvent]

\* The rows of the ks of the set, in ascending k.
RECURSIVE RowsFromSet(_, _)
RowsFromSet(S, ks) ==
  IF ks = {} THEN <<>>
  ELSE <<RowFromSet(S, MinOf(ks))>> \o RowsFromSet(S, ks \ {MinOf(ks)})

\* The arrival order cannot matter: the synced CSV after stop() is the one
\* the set of the arrived payloads determines.
OrderIndifferent ==
  sink.synced = RowsFromSet(SeqToSet(hist.arrived),
                            {hist.arrived[i].k : i \in 1..Len(hist.arrived)})

\* stop() has returned on a sink that writes the synced CSV, and all the
\* samples that arrived were on time and wrote different cells.
StoppedOnTime ==
  /\ thr = "closed"
  /\ sink.csv_signal_enabled
  /\ OnTime(hist.arrived, sink.L)
  /\ NoConflict(hist.arrived)

IterationDone == thr = "run" /\ thr' = "run" /\ sink' # sink

\* The commit watermark at the end of an iteration: nothing at or below
\* k_seen_max - L is left in the row buffer or in the k -> t_q map, the
\* rows written in the step are in ascending k, and unless the idle
\* watermark fired none of them is above k_seen_max - L.
WatermarkKept ==
  /\ \A k \in DOMAIN sink'.open_rows \cup DOMAIN sink'.tq_by_k :
       k > sink'.k_seen_max - sink'.L
  /\ \A i, j \in (Len(sink.synced) + 1)..Len(sink'.synced) :
       i < j => sink'.synced[i].k < sink'.synced[j].k
  /\ ~IdleFires(IF HandlesHead THEN 0 ELSE idle_for) =>
       \A k \in NewRowKs : k <= sink'.k_seen_max - sink'.L

\* C26: the commit watermark invariant holds at the end of every
\* iteration of the consumer loop of the export sink.
C26_CommitWatermark == [][IterationDone => WatermarkKept]_vars

\* The value of the last pair of the list for the channel key, as given.
RECURSIVE RawLast(_, _, _, _)
RawLast(dev, pairs, key, dflt) ==
  IF pairs = <<>> THEN dflt
  ELSE RawLast(dev, Tail(pairs), key,
               IF ChanKey(dev, Head(pairs)[1]) = key
               THEN Head(pairs)[2] ELSE dflt)

\* C21: invalid sample values map to an empty cell.  The cell of a header
\* channel after a sample for it was handled is empty when the value is
\* absent or non-finite, and a 6-decimal number when it is finite.
C21_InvalidIsEmpty ==
  [][(HandlesHead /\ Head(q).tag = "sample" /\ Head(q) \notin MalformedPayloads) =>
       \A c \in 1..Len(Channels) :
         LET v == RawLast(Head(q).dev, Head(q).pairs, Channels[c],
                          [t |-> "unset", v |-> 0])
         IN /\ v \in InvalidValues => CellAfter(Head(q).k, c) = EmptyCell
            /\ v.t = "num" => CellAfter(Head(q).k, c).t = "f6"]_vars

\* Witness of C4: a cell that a later sample replaced in the buffer has
\* been written to the synced CSV.
C4_Witness ==
  \E o \in hist.overwrites : \E i \in 1..Len(sink.synced) :
    /\ sink.synced[i].k = o[1]
    /\ \E c \in 1..Len(Channels) :
         Channels[c] = o[2] /\ sink.synced[i].cells[c] # EmptyCell

\* The rows of the markers CSV whose source is "sync".
SyncMarkers ==
  {i \in 1..Len(sink.markers) : sink.markers[i].source = "sync"}

\* C7: once a row is committed the markers CSV holds exactly one row with
\* source "sync"; it is at the first committed k and its event is the
\* default event.
C7_InitialMarker ==
  (sink.csv_marker_enabled /\ Len(sink.synced) >= 1)
  => /\ Cardinality(SyncMarkers) = 1
     /\ \A i \in SyncMarkers :
          /\ sink.markers[i].k = sink.synced[1].k
          /\ sink.markers[i].event = DefaultEvent

\* The sink has received no payload for idle_watermark_sec.
Idle ==
  /\ thr = "run"
  /\ ~stop_flag
  /\ q = <<>>
  /\ sink.csv_signal_enabled
  /\ idle_watermark > 0
  /\ idle_for >= idle_watermark

\* Every buffered row is committed and the files are flushed.
AllFlushed ==
  /\ DOMAIN sink.open_rows = {}
  /\ DOMAIN sink.tq_by_k = {}
  /\ synced_disk = Len(sink.synced)
  /\ markers_disk = Len(sink.markers)

\* C8: with the idle watermark enabled, when no payload has arrived for
\* idle_watermark_sec, every buffered row up to k_seen_max is committed
\* and the files are flushed.
C8_IdleFlush == Idle ~> AllFlushed

\* Witness of C8: the consumer is still running, a forced idle flush has
\* happened, and the row of k_seen_max, inside the lookahead window, is on
\* disk.
C8_Witness ==
  /\ thr = "run"
  /\ ~stop_flag
  /\ idle_flushes >= 1
  /\ AllFlushed
  /\ \E i \in 1..synced_disk : sink.synced[i].k = sink.k_seen_max

\* C9: at most one forced idle commit and flush happens while the sink
\* stays idle (since the last payload).
C9_IdleFlushOnce == idle_flushes <= 1

\* This step is the consumer taking a malformed payload from the queue.
TakesMalformed ==
  /\ q # <<>>
  /\ Head(q) \in MalformedPayloads
  /\ q' = Tail(q)

\* C20: the consumer of the export sink survives any payload: after taking
\* a payload with an unknown tag or a malformed payload the thread is
\* still running and the buffered rows are those it had before.
C20_ConsumerSurvives ==
  [][TakesMalformed =>
       /\ thr' = "run"
       /\ sink'.k_seen_max = sink.k_seen_max
       /\ DOMAIN sink'.open_rows \subseteq DOMAIN sink.open_rows]_vars

\* ------------------------------------------------------------------------
\* Properties of the synchronizer
\* ------------------------------------------------------------------------
\* This step is a call of set_event that returned its payload.
SetEventReturns ==
  trig' = trig + 1 /\ ret'.op = "set_event" /\ ret'.result = "ok"

\* The values of the operator event keymap.
KeymapValues == {EventKeymapValues[i] : i \in 1..Len(EventKeymapValues)}

\* The last payload put on the queue of a sink.
LastPut(qs, id) == qs[id][Len(qs[id])]

\* C5: the toggle rule of set_event in an active session.  A label equal
\* to the current event makes the default event current, any other label
\* becomes current; the returned payload carries the current event after
\* the call and is the payload put on the registered sinks.
C5_ToggleRule ==
  [][SetEventReturns =>
       /\ sm'.current_event = IF ret'.label = sm.current_event
                              THEN sm.default_event
                              ELSE ret'.label
       /\ ret'.payload.after = sm'.current_event
       /\ \A id \in SeqToSet(sm.sinks) :
            /\ Len(sink_q'[id]) = Len(sink_q[id]) + 1
            /\ LastPut(sink_q', id) = ret'.payload]_vars

\* Witness of C5: a set_event with a label other than the default returned
\* a payload that carries the default event: the second press toggled back.
C5_Witness ==
  /\ ret.op = "set_event"
  /\ ret.result = "ok"
  /\ ret.label # DefaultEvent
  /\ ret.payload.after = DefaultEvent
  /\ sm.current_event = DefaultEvent
  /\ sink_q[ExportSinkQ] # <<>>
  /\ LastPut(sink_q, ExportSinkQ) = ret.payload

\* C6: a set_event call whose label is not a value of the event keymap
\* leaves the sticky event unchanged and puts no payload on any sink.
C6_UnknownLabelRejected ==
  [][(trig' = trig + 1 /\ ret'.op = "set_event"
        /\ ret'.label \notin KeymapValues)
     => (sm'.current_event = sm.current_event /\ sink_q' = sink_q)]_vars

\* C10: when stop_session has returned after joining the consumer, no
\* packet that was in the intake at the call is left unprocessed.
C10_StopDrainsIntake ==
  (stop_pc = "idle" /\ ret.op = "stop_session" /\ ret.result = "ok")
  => at_stop \cap QueuedIds(intake) = {}

\* C11: after stop_session has returned and start_session is called again,
\* the consumer of the new session keeps running until the next
\* stop_session.
C11_RestartedConsumerRuns ==
  (Len(cons) >= 2 /\ sm.started /\ ~sm.stop_evt)
  => cons[sm.consumer] # "exit"

\* The consumer takes the sample packet at the head of the intake in this
\* step and maps it to host time in a started session.
HandlesPacket ==
  /\ intake # <<>>
  /\ intake' = Tail(intake)
  /\ Head(intake).tag = "pkt"
  /\ sm.session_t0 # NoTime

\* The packet handled in this step follows a packet of the same device
\* handled in the same session.
FollowsPacket ==
  /\ HandlesPacket
  /\ Head(intake).dev \in DOMAIN lastpkt
  /\ lastpkt[Head(intake).dev].session = Len(cons)
  /\ Head(intake).dev \in DOMAIN sm.anchors

\* C12: a packet whose device_ts is smaller than that of the previous
\* packet of its device re-anchors the device (dev_ts0 = device_ts, host_t0
\* = host-relative now) and increments the epoch by exactly 1; the epoch
\* never decreases within a session.
C12_BackwardJumpReanchors ==
  [][FollowsPacket =>
       LET pkt == Head(intake)
           old == sm.anchors[pkt.dev]
           new == sm'.anchors[pkt.dev]
       IN /\ new.epoch >= old.epoch
          /\ pkt.device_ts < lastpkt[pkt.dev].ts
             => new = [dev_ts0 |-> pkt.device_ts,
                       host_t0 |-> HostRelNow(sm, clock),
                       epoch |-> old.epoch + 1]]_vars

\* C13: within a session, when a packet of a device follows a packet of the
\* same device with a device_ts that is not smaller, and the anchor of the
\* device is not changed, the k of its payload is not smaller than the k of
\* the earlier payload.
C13_MonotoneK ==
  [][(/\ FollowsPacket
      /\ Head(intake).device_ts >= lastpkt[Head(intake).dev].ts
      /\ sm'.anchors[Head(intake).dev] = sm.anchors[Head(intake).dev])
     => SamplePayload(sm, Head(intake), clock).k
          >= lastpkt[Head(intake).dev].k]_vars

\* Witness of C13: a second packet of a device, later in device time than
\* the one that created the anchor, was given a larger k.
C13_Witness ==
  \E dev \in DOMAIN lastpkt :
    /\ dev \in DOMAIN sm.anchors
    /\ lastpkt[dev].session = Len(cons)
    /\ lastpkt[dev].ts > sm.anchors[dev].dev_ts0
    /\ lastpkt[dev].k > Quantize(sm.anchors[dev].host_t0).k

\* This step is a call of set_event or trigger_spike.
TriggerCalled == trig' = trig + 1
\* The sink queues registered with the synchronizer.
Registered(m) == SeqToSet(m.sinks) \cup SeqToSet(m.plot_sinks)

\* C17: marker triggers bypass the intake.  A set_event or trigger_spike
\* that returns in an active session has put its payload on every
\* registered full-rate sink queue and every plot sink queue, whatever is
\* waiting in the intake, and no trigger changes the intake.
C17_TriggersBypassIntake ==
  [][TriggerCalled =>
       /\ intake' = intake
       /\ ret'.result = "ok" =>
            \A id \in Registered(sm) :
               sink_q'[id] = Append(sink_q[id], ret'.payload)]_vars

\* The orders in which the calls of the trigger threads can be serialized.
CallOrders ==
  {o \in [1..Cardinality(TriggerThreads) -> TriggerThreads] :
     \A i, j \in DOMAIN o : o[i] = o[j] => i = j}

\* The sticky event after the first i calls of the order, made one after
\* the other from the event e.
RECURSIVE EventAfterCalls(_, _, _)
EventAfterCalls(e, o, i) ==
  IF i = 0 THEN e
  ELSE Toggle([sm EXCEPT !.current_event = EventAfterCalls(e, o, i - 1)],
              trg[o[i]].label)

\* C18: set_event calls made concurrently by the trigger threads in one
\* session are atomic: once they have all returned, the current event and
\* the label and current_event_after of every payload are those of the
\* same calls made in some sequential order.
C18_SetEventSerializable ==
  (\A t \in TriggerThreads : trg[t].pc = "done") =>
     \E o \in CallOrders :
        /\ sm.current_event =
             EventAfterCalls(sm.default_event, o, Cardinality(TriggerThreads))
        /\ \A i \in DOMAIN o :
             /\ trg[o[i]].payload.after = EventAfterCalls(sm.default_event, o, i)
             /\ trg[o[i]].payload.label = trg[o[i]].payload.after

\* This step is the consumer taking a sample packet from the intake.
TakesPacket ==
  /\ intake # <<>>
  /\ Head(intake).tag = "pkt"
  /\ intake' = Tail(intake)
  /\ enq' = enq

\* C19: a packet whose handling raises does not end the consumer, and
\* nothing is emitted for it: no sink queue changes in the step.
C19_MalformedSkipped ==
  [][(TakesPacket /\ HandlingRaises(sm, Head(intake))) =>
       /\ cons'[sm.consumer] = "test"
       /\ sink_q' = sink_q]_vars

\* C22: set_event and trigger_spike called with an empty source signal an
\* error, leave the sticky event (and the whole synchronizer) unchanged
\* and put no payload on any sink queue.
C22_EmptySourceRejected ==
  [][(TriggerCalled /\ ret'.source = "") =>
       /\ ret'.result = "error"
       /\ sm' = sm
       /\ sink_q' = sink_q]_vars

\* Witness of C22: in an active session with a registered sink, a
\* set_event with an empty source and a label other than the current event
\* was rejected.
C22_Witness ==
  /\ ret.op = "set_event"
  /\ ret.result = "error"
  /\ ret.source = ""
  /\ sm.session_t0 # NoTime
  /\ sm.sinks # <<>>
  /\ ret.label # sm.current_event

\* The number of stop sentinels in the intake.
Sentinels(iq) == Cardinality({i \in 1..Len(iq) : iq[i] = Sentinel})

\* C23: lifecycle no-ops.  While a session is started no step creates a
\* second consumer or resets session_t0 or delta, and a start_session call
\* changes nothing at all; while no session is started no step removes a
\* registered sink or pushes a sentinel, and a stop_session call changes
\* nothing at all.
C23_LifecycleNoops ==
  [][/\ (sm.started /\ sm'.started) =>
          /\ Len(cons') = Len(cons)
          /\ sm'.consumer = sm.consumer
          /\ sm'.session_t0 = sm.session_t0
          /\ sm'.delta = sm.delta
     /\ (sm.started /\ ret' # ret /\ ret'.op = "start_session") =>
          /\ ret'.result = "noop"
          /\ <<sm, intake, cons, sink_q>>' = <<sm, intake, cons, sink_q>>
     /\ ~sm.started =>
          /\ SeqToSet(sm.sinks) \subseteq SeqToSet(sm'.sinks)
          /\ SeqToSet(sm.plot_sinks) \subseteq SeqToSet(sm'.plot_sinks)
          /\ Sentinels(intake') <= Sentinels(intake)
     /\ (~sm.started /\ ret' # ret /\ ret'.op = "stop_session") =>
          /\ ret'.result = "noop"
          /\ <<sm, intake, cons, sink_q>>' = <<sm, intake, cons, sink_q>>]_vars

\* Witness of C23: start_session returned without effect in a session
\* whose current event is no longer the default one.
C23_Witness ==
  /\ ret = Noop("start_session")
  /\ sm.started
  /\ sm.current_event # sm.default_event
  /\ Len(cons) = 1

\* The packet enqueue_packet has put on the intake in this step.
Enqueued == intake'[Len(intake')]

\* C16: with max_queue = N > 0 the intake never holds more than N items,
\* and an enqueue on a full intake removes the oldest item and appends the
\* new packet; with max_queue = 0 the packet is appended and nothing is
\* dropped.
C16_DropOldest ==
  [][/\ sm'.max_queue > 0 => Len(intake') <= sm'.max_queue
     /\ enq' = enq + 1 =>
          /\ intake' # <<>>
          /\ Enqueued.tag = "pkt"
          /\ Enqueued.id = enq'
          /\ intake' = IF sm.max_queue > 0 /\ Len(intake) >= sm.max_queue
                       THEN Append(Tail(intake), Enqueued)
                       ELSE Append(intake, Enqueued)]_vars

\* Witness of C16: no consumer was ever started, more packets than
\* max_queue = N >= 2 were submitted, and the intake holds the N last ones
\* in submission order.
C16_Witness ==
  /\ cons = <<>>
  /\ sm.max_queue >= 2
  /\ enq > sm.max_queue
  /\ Len(intake) = sm.max_queue
  /\ \A i \in 1..Len(intake) :
       intake[i].tag = "pkt" /\ intake[i].id = enq - Len(intake) + i

\* ------------------------------------------------------------------------
\* Properties of the device timebase
\* ------------------------------------------------------------------------
\* C14: after a reset, for raw ticks in [0, COUNTER_MOD) where a tick below
\* the previous one is a counter wrap, the returned time is non-decreasing
\* from call to call and strictly increasing across every wrap.
C14_RolloverMonotone ==
  \A i \in 2..Len(tb.calls) :
    /\ tb.calls[i].t.den = tb.calls[i - 1].t.den
    /\ tb.calls[i].t.num >= tb.calls[i - 1].t.num
    /\ tb.calls[i].raw < tb.calls[i - 1].raw
       => tb.calls[i].t.num > tb.calls[i - 1].t.num

\* Witness of C14: the counter has wrapped twice since the reset.
C14_Witness ==
  Cardinality({i \in 1..Len(tb.calls) : tb.calls[i].wrap}) >= 2

\* The raw ticks and the returned numerators of the calls since the reset.
RawSeq == [i \in 1..Len(tb.calls) |-> tb.calls[i].raw]
TickSeq == [i \in 1..Len(tb.calls) |-> tb.calls[i].t.num]
\* The rollover scenario: 65530, 65535, 3, 10 on a freshly reset key.
Scenario == RawSeq = <<65530, 65535, 3, 10>>

\* C15 as stated: the scenario returns 65530, 65535, 65539 and 65546
\* ticks over 32768.
C15_ScenarioAbsolute ==
  Scenario => TickSeq = <<65530, 65535, 65539, 65546>>

\* C15 amended: the times are counted from the anchor, the first tick: the
\* scenario returns 0, 5, 9 and 16 ticks over 32768, strictly increasing.
C15_ScenarioFromAnchor ==
  Scenario =>
    /\ TickSeq = <<0, 5, 9, 16>>
    /\ \A i \in 1..Len(tb.calls) : tb.calls[i].t.den = 32768

\* Witness of C15: the four calls of the scenario have been made.
C15_Witness == Scenario /\ Len(tb.calls) = 4

\* C27: with plot decimation enabled, at most one sample value per series
\* (device, channel) is forwarded to the plot sinks per decimation bin
\* over the whole session.
C27_OnePerBin ==
  \A dev \in DOMAIN lastpkt :
    \A i, j \in 1..Len(lastpkt[dev].plotted) :
      i # j => lastpkt[dev].plotted[i] # lastpkt[dev].plotted[j]

\* The payload was put on every registered full-rate queue that was not
\* full, and on every plot queue that was not full when the payload is a
\* marker or the first sample of its device.
Delivered(payload) ==
  /\ \A id \in SeqToSet(sm.sinks) :
       ~SinkFull(sink_q, id) => sink_q'[id] = Append(sink_q[id], payload)
  /\ \A id \in SeqToSet(sm.plot_sinks) :
       (/\ ~SinkFull(sink_q, id)
        /\ payload.tag = "sample" => sm.plot_last_bin = EmptyMap)
       => sink_q'[id] = Append(sink_q[id], payload)

\* C28: best-effort fan-out.  Every payload emitted in a session (event,
\* spike, sample) is put on every registered full-rate sink queue whose
\* put does not raise, whatever the state of the other queues: a full
\* queue does not prevent the delivery to the other full-rate queues nor
\* to the plot queues, and the consumer goes on with its loop.
C28_BestEffortFanout ==
  [][/\ (TriggerCalled /\ ret'.result = "ok") => Delivered(ret'.payload)
     /\ (TakesPacket /\ sm.session_t0 # NoTime)
          => /\ Delivered(SamplePayload(sm, Head(intake), clock))
             /\ \E i \in 1..Len(cons) : cons[i] = "get" /\ cons'[i] = "test"]_vars

\* Witness of C28: the bounded queue was registered first and is full
\* with the first payload; the second payload was lost for it and was put
\* on the queue of the export sink and on the plot queue.
C28_Witness ==
  /\ sm.sinks = <<BoundedSinkQ, ExportSinkQ>>
  /\ Len(sink_q[ExportSinkQ]) = 2
  /\ sink_q[BoundedSinkQ] = <<sink_q[ExportSinkQ][1]>>
  /\ sink_q[PlotSinkQ] = <<sink_q[ExportSinkQ][2]>>

\* The pairs of the list whose device:channel is in the header.
InHeaderPairs(dev, pairs) ==
  SelectSeq(pairs, LAMBDA p : ChanKey(dev, p[1]) \in ChannelSet)

\* The spike cell of frame k after this step: the buffered one while the
\* row is open, else the one of the row written in this step.
SpikeAfter(k) ==
  IF k \in DOMAIN sink'.open_rows
  THEN BuildRow(sink', k, TQ(k)).spike
  ELSE LET i == MaxOf({j \in (Len(sink.synced) + 1)..Len(sink'.synced) :
                         sink'.synced[j].k = k})
       IN sink'.synced[i].spike

\* C29: the header is the schema.  When the consumer handles a sample with
\* a pair whose device:channel is not in the channel list, the rows
\* already written stay as they are, and every cell of every buffered or
\* newly written row is what the in-header pairs of the payload alone
\* make it: the cell of a channel that an in-header pair of the payload
\* names holds the value of that pair, every other cell, the spike cell
\* included, keeps its content.
C29_HeaderIsSchema ==
  [][(/\ HandlesHead
      /\ Head(q).tag = "sample"
      /\ Head(q) \notin MalformedPayloads
      /\ InHeaderPairs(Head(q).dev, Head(q).pairs) # Head(q).pairs)
     => /\ SubSeq(sink'.synced, 1, Len(sink.synced)) = sink.synced
        /\ \A k \in DOMAIN sink.open_rows \cup {Head(q).k} :
             /\ k \in DOMAIN sink'.open_rows \/ k \in NewRowKs
             /\ SpikeAfter(k) = BuildRow(sink, k, TQ(k)).spike
             /\ \A c \in 1..Len(Channels) :
                  CellAfter(k, c) =
                    IF Head(q).k = k
                    THEN LastValue(Head(q).dev,
                                   InHeaderPairs(Head(q).dev, Head(q).pairs),
                                   Channels[c],
                                   CellOf(RowOf(sink.open_rows, k), Channels[c]))
                    ELSE CellOf(RowOf(sink.open_rows, k), Channels[c])]_vars

\* Witness of C29: a row of the synced CSV holds in the cell of x the value
\* 2.0 and nothing in the cell of y: x was last written by the payload
\* with the pairs (z, 1.0), (x, 2.0), whose first pair is not in the header.
C29_Witness ==
  \E i \in 1..Len(sink.synced) :
    /\ sink.synced[i].cells[1] = FmtVal(Num(20000000))
    /\ sink.synced[i].cells[2] = EmptyCell

\* C30: per-device FIFO.  On every full-rate sink queue the sample
\* payloads of a device are in the order in which the producer submitted
\* their packets: a subsequence of the submission order, without
\* reordering or duplication.
C30_PerDeviceFifo ==
  \A id \in {ExportSinkQ, BoundedSinkQ} :
    \A i, j \in 1..Len(sink_q[id]) :
      (/\ i < j
       /\ sink_q[id][i].tag = "sample"
       /\ sink_q[id][j].tag = "sample"
       /\ sink_q[id][i].dev = sink_q[id][j].dev)
      => sink_q[id][i].id < sink_q[id][j].id

\* ------------------------------------------------------------------------
\* Properties of the quantizer
\* ------------------------------------------------------------------------
\* k = floor(t / delta + 0.5) for the call: k - 0.5 <= t / delta < k + 0.5,
\* with t in ticks of delta / DeltaTicks.
HalfUp(c) ==
  /\ 2 * DeltaTicks * c.k <= 2 * c.t + DeltaTicks
  /\ 2 * c.t + DeltaTicks < 2 * DeltaTicks * (c.k + 1)

\* t_q = floor(k * delta * 10^D) / 10^D for the call, with t_q in units of
\* 10^-D s: t_q <= k * m * 10^(D - e) < t_q + 1.
Floored(c) ==
  LET up == IF quant.decimals >= quant.delta.e
            THEN Pow10(quant.decimals - quant.delta.e) ELSE 1
      down == IF quant.decimals >= quant.delta.e
              THEN 1 ELSE Pow10(quant.delta.e - quant.decimals)
  IN /\ c.t_q * down <= c.k * quant.delta.m * up
     /\ c.k * quant.delta.m * up < (c.t_q + 1) * down

\* The calls of _quantize of the session follow the formulas of k and t_q.
OnGrid ==
  \A i \in 1..Len(quant.calls) : HalfUp(quant.calls[i]) /\ Floored(quant.calls[i])

\* Two calls with distinct k have distinct t_q, and t_q does not decrease
\* with k.
DistinctMonotone ==
  \A i, j \in 1..Len(quant.calls) :
    /\ quant.calls[i].k # quant.calls[j].k
         => quant.calls[i].t_q # quant.calls[j].t_q
    /\ quant.calls[i].k <= quant.calls[j].k
         => quant.calls[i].t_q <= quant.calls[j].t_q

\* C31 as stated: for every grid step delta, k = floor(t / delta + 0.5),
\* t_q = floor(k * delta * 10^D) / 10^D, two distinct k never yield the
\* same t_q and t_q is non-decreasing in k.
C31_GridAligned == OnGrid /\ DistinctMonotone

\* C31, amended: the formulas of k and t_q hold for every grid step, t_q
\* is non-decreasing in k, and two distinct k never yield the same t_q
\* when delta >= 1e-9 s, so that the clamp of D at 9 leaves 10^-D <= delta.
C31_GridAlignedAboveClamp ==
  /\ OnGrid
  /\ \A i, j \in 1..Len(quant.calls) :
       quant.calls[i].k <= quant.calls[j].k
         => quant.calls[i].t_q <= quant.calls[j].t_q
  /\ quant.delta.e <= quant.decimals => DistinctMonotone

\* Witness of C31: with delta = 1e-9 s, where D is clamped at 9, an exact
\* half was rounded up and the two calls have different k and t_q.
C31_Witness ==
  /\ quant.delta = [m |-> 1, e |-> 9]
  /\ quant.decimals = 9
  /\ Len(quant.calls) = 2
  /\ quant.calls[1].t = DeltaTicks + 1
  /\ quant.calls[1].k = 2
  /\ quant.calls[2].k = 1
  /\ quant.calls[1].t_q > quant.calls[2].t_q

\* ------------------------------------------------------------------------
\* Properties of the LSL timebase
\* ------------------------------------------------------------------------
\* The stamp observed by call i advances on the previous observed stamp
\* by more than the realign gap / by the realign gap or more.
GapAbove(i) ==
  /\ lsl.calls[i].stamp # NoStamp
  /\ lsl.calls[i].stamp - lsl.calls[i].last_wall > SoftGap
GapReached(i) ==
  /\ lsl.calls[i].stamp # NoStamp
  /\ lsl.calls[i].stamp - lsl.calls[i].last_wall >= SoftGap

\* The tick of call i given the calls that observed a gap: s0 + (i - 1) / fs
\* without one, else the stamp of the last such call g plus (i - g) / fs.
TickFrom(i, gaps) ==
  IF gaps = {} THEN lsl.calls[1].last_wall + (i - 1) * LslDt
  ELSE lsl.calls[MaxOf(gaps)].stamp + (i - MaxOf(gaps)) * LslDt

\* C32 as stated: after the anchor on s0 the n-th call of next_tick
\* returns s0 + n / fs as long as no observed stamp advances on the
\* previous observed stamp by more than the realign gap; a call that
\* observes such a gap returns the observed stamp and the calls after it
\* continue from it in steps of 1 / fs.
C32_DeterministicTicks ==
  \A i \in 1..Len(lsl.calls) :
    lsl.calls[i].out = TickFrom(i, {g \in 1..i : GapAbove(g)})

\* C32, amended: the same with the realign on an advance of at least the
\* realign gap.
C32_DeterministicTicksAtLeastGap ==
  \A i \in 1..Len(lsl.calls) :
    lsl.calls[i].out = TickFrom(i, {g \in 1..i : GapReached(g)})

\* Witness of C32: the second call observed an advance of exactly the
\* realign gap and returned its stamp, not s0 + 1 / fs, and the third call
\* continued from it.
C32_Witness ==
  /\ Len(lsl.calls) >= 3
  /\ lsl.calls[2].stamp - lsl.calls[2].last_wall = SoftGap
  /\ lsl.calls[2].out = lsl.calls[2].stamp
  /\ lsl.calls[2].out # lsl.calls[1].out + LslDt
  /\ lsl.calls[3].out = lsl.calls[2].out + LslDt

\* C38: between two resets every tick returned by next_tick is greater
\* than the tick returned by the previous call.
C38_TicksIncrease ==
  \A i \in 1..(Len(lsl.calls) - 1) : lsl.calls[i].out < lsl.calls[i + 1].out

\* ------------------------------------------------------------------------
\* Properties of the session lifecycle
\* ------------------------------------------------------------------------
\* The consumer threads that have not left _consume_loop.
AliveConsumers == {i \in 1..Len(cons) : cons[i] # "exit"}

\* C33: single consumer.  Across the start_session / stop_session calls,
\* a stop_session whose join expires included, at most one consumer
\* thread is alive.
C33_SingleConsumer == Cardinality(AliveConsumers) <= 1

\* This step is a start_session that starts a new session after an earlier
\* one.
Restarts == Len(cons) >= 1 /\ Len(cons') = Len(cons) + 1

\* C34: no intake item crosses sessions.  When start_session begins a new
\* session after a stop_session, the intake holds no sample packet and no
\* sentinel of the previous session.
C34_IntakeEmptyAtRestart == [][Restarts => intake = <<>>]_vars

\* ------------------------------------------------------------------------
\* Properties of the export sink: markers and stop
\* ------------------------------------------------------------------------
\* C35: no pending event change is lost.  An entry of event_changes is
\* removed only in a step that applies it to sticky_event, that is, a
\* step that commits a row with a k not smaller than the k of the entry.
C35_NoChangeLost ==
  [][\A kk \in DOMAIN sink.event_changes \ DOMAIN sink'.event_changes :
       \E k \in NewRowKs : k >= kk]_vars

\* The synchronizer under fair scheduling: every consumer thread runs (its
\* loop test, its _q.get and the 0.2 s timeout of the get), and the
\* join of stop_session returns, on the exit of the consumer or on its
\* 2 s deadline.
SpecSyncFair ==
  /\ InitSyncFifo
  /\ [][NextSyncProducers]_vars
  /\ \A i \in 1..MaxSessionsRestart :
       /\ WF_vars(i <= Len(cons) /\ ConsumerTest(i))
       /\ WF_vars(i <= Len(cons) /\ ConsumerGet(i))
       /\ WF_vars(i <= Len(cons) /\ ConsumerTimeout(i))
  /\ WF_vars(StopSessionJoin \/ StopSessionJoinExpired)

\* ------------------------------------------------------------------------
\* Properties of the triggers
\* ------------------------------------------------------------------------
\* The event payloads on the sink queue, in the order of the puts.
EventsOn(id) == SelectSeq(sink_q[id], LAMBDA p : p.tag = "event")

\* C36: the sinks agree with the synchronizer on the sticky event.  Once
\* the set_event calls of the trigger threads have all returned, the
\* last event payload on each full-rate sink queue carries the
\* current_event_after that get_current_event() returns.
C36_SinksAgree ==
  (\A t \in TriggerThreads : trg[t].pc \in {"idle", "done", "raised"}) =>
     \A id \in SeqToSet(sm.sinks) :
        EventsOn(id) # <<>>
          => EventsOn(id)[Len(EventsOn(id))].after = sm.current_event

\* C39: triggers outside an active session have no effect.  A set_event or
\* trigger_spike call made before the first start_session, or after
\* stop_session has returned, raises, leaves the sticky event as it was
\* and puts no payload on any sink queue.
C39_TriggersOutsideSession ==
  [][(trig' = trig + 1 /\ ~sm.started)
       => /\ ret'.result = "error"
          /\ sm'.current_event = sm.current_event
          /\ sink_q' = sink_q]_vars

\* A trigger with a source raised after a stopped session, with a sink
\* registered again after the stop.
C39_Witness ==
  /\ ret.op \in {"set_event", "trigger_spike"}
  /\ ret.result = "error"
  /\ ret.source # ""
  /\ Len(cons) >= 1
  /\ ~sm.started
  /\ sm.sinks # <<>>

\* C37: the consumer terminates after stop_session.  Under fair
\* scheduling, once stop_session has signalled the consumer of the session
\* (also with a full bounded intake that takes no sentinel, also with
\* producers that keep enqueuing), that consumer eventually leaves its loop.
C37_ConsumerTerminates ==
  \A i \in 1..MaxSessionsRestart :
     (stop_pc = "join" /\ sm.consumer = i)
       ~> (i <= Len(cons) /\ cons[i] = "exit")

\* ------------------------------------------------------------------------
\* Properties of the export stop
\* ------------------------------------------------------------------------
\* C40: the export stop loses no queued payload.  When stop() returns, no
\* sample, event or spike payload that was put on the queue of the sink
\* is left unhandled on it: each one was taken by the consumer before the
\* final commit.
C40_StopDrainsQueue ==
  [][StopReturns =>
       \A i \in 1..Len(q) : q[i].tag \notin {"sample", "event", "spike"}]_vars

====
